---- MODULE Spec2Model ----
(***************************************************************************)
(* Model of the swing screener's analysis core (src/src/swing/analysis)    *)
(* and of the scan loops that drive it (main.py, web/app.py).              *)
(*                                                                         *)
(* Numbers.  Python floats are modelled by exact fixed-point integers:     *)
(*   - prices and ATR read from a signal result are in thousandths of a    *)
(*     currency unit ("milli");                                            *)
(*   - values computed inside compute_levels are in 1/10000 of a milli     *)
(*     (1e-7 currency), the common denominator of x1.5, x0.995 and x1.02;  *)
(*   - fields produced by round(x, 2) are in hundredths, fields produced   *)
(*     by round(x, 1) are in tenths.                                       *)
(* round() is Python's: to the nearest multiple, ties to the even one.     *)
(* An optional value (None / NaN) is the empty sequence, a present value v *)
(* is <<v>>.                                                               *)
(***************************************************************************)
EXTENDS Integers, Sequences, FiniteSets, TLC

VARIABLES
    pc,             \* position of the operation under way
    result,         \* the dict detect_signals returned (callers' `result`)
    df,             \* the DataFrame under analysis, indicators computed
    levels,         \* what compute_levels returned: None or a plan
    score_result,   \* what compute_score returned
    candidates,     \* the candidate records collected so far
    ranked,         \* what rank_candidates returned
    raw_levels,     \* swing-point prices handed to _cluster_levels
    clustered,      \* _cluster_levels(raw_levels)
    reclustered,    \* _cluster_levels(clustered)
    caller,         \* "run_screener" (main.py) or "scan" (web/app.py)
    market,         \* the market being scanned
    stocks,         \* the stock list, each stock with the frame its fetch gives
    idx,            \* position of the scan loop in stocks
    skipped,        \* the caller's skipped count
    filtered,       \* the caller's filtered count
    raised,         \* the exception that left the operation, if any
    ohlcv,          \* the raw frame handed to compute_indicators
    enriched,       \* what compute_indicators returned
    series,         \* a price series growing bar by bar, with its indicators
    macd_loop,      \* the MACD scan of detect_signals: the bars it visited
    sr_out,         \* what find_support_resistance returned, and from which candidates
    cache,          \* today's rows of the scan_results table, by their scope column
    request,        \* the request the web application served last
    response,       \* the JSON it answered with
    runs            \* how often a scan ran to its end, by cache key

pipeVars == <<df, result, levels, score_result>>
rankVars == <<candidates, ranked>>
clusterVars == <<raw_levels, clustered, reclustered>>
scanVars == <<caller, market, stocks, idx, skipped, filtered, raised>>
indVars == <<ohlcv, enriched, series>>
loopVars == <<macd_loop>>
srVars == <<sr_out>>
webVars == <<cache, request, response, runs>>
otherVars == <<srVars, webVars>>
vars == <<pc, pipeVars, rankVars, clusterVars, scanVars, indVars, loopVars, otherVars>>

----------------------------------------------------------------------------
(* Optional values *)

None == <<>>
Some(v) == <<v>>
IsNone(x) == x = <<>>
notna(x) == x /= <<>>
Val(x) == x[1]

\* The variables an operation does not touch, at rest
RankIdle == candidates = <<>> /\ ranked = <<>>
ClusterIdle == raw_levels = <<>> /\ clustered = <<>> /\ reclustered = <<>>
ScanIdle ==
    /\ caller = "" /\ market = "" /\ stocks = <<>> /\ idx = 0
    /\ skipped = 0 /\ filtered = 0 /\ raised = None
IndIdle == ohlcv = None /\ enriched = None /\ series = None
LoopIdle == macd_loop = None
SrIdle == sr_out = None
WebIdle == cache = <<>> /\ request = None /\ response = None /\ runs = <<>>
OthersIdle == SrIdle /\ WebIdle

----------------------------------------------------------------------------
(* config.py *)

\* RSI_OVERSOLD = 40 (RSI points)
RSI_OVERSOLD == 40
MIN_SIGNALS_REQUIRED == 2
\* SUPPORT_PROXIMITY_PCT = 0.02, in hundredths
SUPPORT_PROXIMITY_PCT_X100 == 2
\* VOLUME_SURGE_FACTOR = 1.5, in tenths
VOLUME_SURGE_FACTOR_X10 == 15
\* MIN_PRICE = 50.0 and MIN_PRICE_US = 5.0, in milli
MIN_PRICE == 50000
MIN_PRICE_US == 5000
\* MIN_AVG_VOLUME = 100_000 shares
MIN_AVG_VOLUME == 100000
MIN_RISK_REWARD == 2
\* ATR_SL_MULTIPLIER = 1.5, in tenths
ATR_SL_MULTIPLIER_X10 == 15

----------------------------------------------------------------------------
(* Arithmetic helpers *)

Max(a, b) == IF a >= b THEN a ELSE b
Min(a, b) == IF a <= b THEN a ELSE b

\* round(n / d) for d > 0: the set of integers Python's round() can return.
\* round() rounds the binary float it is given, and a decimal tie (x.xx5) is
\* not a tie of the float that stands for it: the float lies just above or
\* just below, as the rounding errors of the computation that produced it
\* fall.  Off a tie the result is the nearest integer; on a tie it is either
\* neighbour.
Round(n, d) ==
    LET q == n \div d
        r == n % d
    IN  IF 2 * r < d THEN {q}
        ELSE IF 2 * r > d THEN {q + 1}
        ELSE {q, q + 1}

\* round(reward / risk, 2) in hundredths; the division is staged so that no
\* intermediate exceeds the 32-bit integers of the checker.
RoundRatio2(reward, risk) ==
    LET r0 == reward % risk
        d1 == (10 * r0) \div risk
        r1 == (10 * r0) % risk
    IN  { 100 * (reward \div risk) + 10 * d1 + h : h \in Round(10 * r1, risk) }

\* dict.get(key, default)
Get(d, key, default) == IF key \in DOMAIN d THEN d[key] ELSE default

\* sum(xs)
RECURSIVE SumSeq(_)
SumSeq(xs) == IF xs = <<>> THEN 0 ELSE xs[1] + SumSeq(Tail(xs))

\* sorted(xs): ascending; a stable insertion sort
RECURSIVE InsertAsc(_, _)
InsertAsc(sorted, x) ==
    IF sorted = <<>> THEN <<x>>
    ELSE IF x < sorted[1] THEN <<x>> \o sorted
         ELSE <<sorted[1]>> \o InsertAsc(Tail(sorted), x)

RECURSIVE SortedAsc(_)
SortedAsc(xs) ==
    IF xs = <<>> THEN <<>>
    ELSE InsertAsc(SortedAsc(SubSeq(xs, 1, Len(xs) - 1)), xs[Len(xs)])

\* Comparisons of values that may be NaN: false when either side is NaN
Gt(x, y) == notna(x) /\ notna(y) /\ Val(x) > Val(y)
Ge(x, y) == notna(x) /\ notna(y) /\ Val(x) >= Val(y)
Le(x, y) == notna(x) /\ notna(y) /\ Val(x) <= Val(y)

\* xs[-n:]
LastN(xs, n) == IF n >= Len(xs) THEN xs ELSE SubSeq(xs, Len(xs) - n + 1, Len(xs))

----------------------------------------------------------------------------
(* analysis/indicators.py *)

\* _cluster_levels(levels, tolerance), tolerance in thousandths.  The walk
\* over the sorted levels: `clusters` is the list of clusters built so far.
RECURSIVE ClusterWalk(_, _, _)
ClusterWalk(clusters, rest, tolerance) ==
    IF rest = <<>> THEN clusters
    ELSE LET lvl == rest[1]
             cur == clusters[Len(clusters)]
             last == cur[Len(cur)]
             diff == IF lvl >= last THEN lvl - last ELSE last - lvl
         IN  IF 1000 * diff <= tolerance * last
             THEN ClusterWalk([clusters EXCEPT ![Len(clusters)] = Append(cur, lvl)],
                              Tail(rest), tolerance)
             ELSE ClusterWalk(Append(clusters, <<lvl>>), Tail(rest), tolerance)

\* The clusters themselves (before averaging)
Clusters(lvls, tolerance) ==
    IF lvls = <<>> THEN <<>>
    ELSE LET sorted == SortedAsc(lvls)
         IN  ClusterWalk(<< <<sorted[1]>> >>, Tail(sorted), tolerance)

\* sum(c) / len(c); the levels of the model are chosen so that it is exact
Mean(c) == SumSeq(c) \div Len(c)

_cluster_levels(lvls, tolerance) ==
    LET clusters == Clusters(lvls, tolerance)
    IN  [k \in 1..Len(clusters) |-> Mean(clusters[k])]

\* sum(c) / len(c) in float arithmetic, the levels counted in units of the
\* float spacing at their magnitude: a one-member cluster gives its member;
\* for two members the sum rounds once and halving is exact, so the result
\* is the mean rounded to a float; for more the sum and the division each
\* round and the result is the exact mean or a neighbouring float
\* (sum([2753.2] * 3) / 3 = 2753.1999999999994,
\*  sum([1184.6] * 6) / 6 = 1184.6000000000001)
FloatMeans(c) ==
    IF Len(c) = 1 THEN {c[1]}
    ELSE IF Len(c) = 2 THEN {SumSeq(c) \div 2, (SumSeq(c) + 1) \div 2}
    ELSE {Mean(c) - 1, Mean(c), Mean(c) + 1}

\* [sum(c) / len(c) for c in clusters]
RECURSIVE MeansOf(_)
MeansOf(clusters) ==
    IF clusters = <<>> THEN {<<>>}
    ELSE { <<m>> \o ms : m \in FloatMeans(clusters[1]), ms \in MeansOf(Tail(clusters)) }

\* The lists _cluster_levels(levels, tolerance) can return in float arithmetic
ClusterMeans(lvls, tolerance) == MeansOf(Clusters(lvls, tolerance))

\* min / max of xs[lo..hi]
RECURSIVE MinOf(_, _, _)
MinOf(xs, lo, hi) ==
    IF lo = hi THEN xs[lo]
    ELSE LET m == MinOf(xs, lo + 1, hi) IN IF xs[lo] <= m THEN xs[lo] ELSE m

RECURSIVE MaxOf(_, _, _)
MaxOf(xs, lo, hi) ==
    IF lo = hi THEN xs[lo]
    ELSE LET m == MaxOf(xs, lo + 1, hi) IN IF xs[lo] >= m THEN xs[lo] ELSE m

\* The offsets range(window, len(xs) - window), as 1-based positions
SwingRange(xs, window) == [j \in 1..(Len(xs) - 2 * window) |-> j + window]

\* [lows[i] for i in range(...) if lows[i] == min(lows[i-window : i+window+1])]
SwingLows(lows, window) ==
    LET at == SelectSeq(SwingRange(lows, window),
                        LAMBDA i : lows[i] = MinOf(lows, i - window, i + window))
    IN  [k \in 1..Len(at) |-> lows[at[k]]]

SwingHighs(highs, window) ==
    LET at == SelectSeq(SwingRange(highs, window),
                        LAMBDA i : highs[i] = MaxOf(highs, i - window, i + window))
    IN  [k \in 1..Len(at) |-> highs[at[k]]]

\* lookback=60, the default of find_support_resistance
Lookback == 60

\* find_support_resistance(df, lookback=60, tolerance=0.015).  d.High and
\* d.Low hold the most recent min(len(df), 60) bars, which is all it reads.
\* Mutant of SwingCandidates: a frame shorter than lookback is used whole
SwingCandidates_WholeFrame(d) ==
    LET lookback == IF d.len < Lookback THEN d.len ELSE Lookback
        highs == LastN(d.High, lookback)
        lows == LastN(d.Low, lookback)
    IN  [supports_raw |-> SwingLows(lows, 5), resistances_raw |-> SwingHighs(highs, 5)]

\* supports_raw and resistances_raw at the end of the loop
SwingCandidates(d) ==
    LET lookback == IF d.len < Lookback THEN Max(20, d.len - 5) ELSE Lookback
        highs == LastN(d.High, lookback)
        lows == LastN(d.Low, lookback)
    IN  [supports_raw |-> SwingLows(lows, 5), resistances_raw |-> SwingHighs(highs, 5)]

find_support_resistance(d) ==
    LET raw == SwingCandidates(d)
        supports == _cluster_levels(raw.supports_raw, 15)
        resistances == _cluster_levels(raw.resistances_raw, 15)
    IN  [supports |-> SortedAsc(supports), resistances |-> SortedAsc(resistances)]

----------------------------------------------------------------------------
(* analysis/signals.py *)

(* A DataFrame d that has been through compute_indicators:
     d.len           the number of bars;
     d.Close, d.EMA_20, ... d.Volume_SMA
                     each column's five most recent values, oldest first,
                     a NaN being None (no row further back is ever read);
     d.High, d.Low   the most recent min(len, 60) bars.                    *)
Columns == {"Close", "EMA_20", "EMA_50", "EMA_200", "RSI", "MACD",
            "MACD_Signal", "ATR", "Volume", "Volume_SMA"}

\* df.iloc[-k]
iloc(d, k) == [c \in Columns |-> d[c][Len(d[c]) + 1 - k]]

\* Mutant of WasOversold: df["RSI"].iloc[-4:], a window of four bars
WasOversold_FourBars(d) ==
    \E k \in 1..Len(LastN(d.RSI, 4)) :
        LET r == LastN(d.RSI, 4)[k] IN notna(r) /\ Val(r) <= RSI_OVERSOLD

\* any(r <= RSI_OVERSOLD for r in df["RSI"].iloc[-5:].dropna())
WasOversold(d) ==
    \E k \in 1..Len(LastN(d.RSI, 5)) :
        LET r == LastN(d.RSI, 5)[k] IN notna(r) /\ Val(r) <= RSI_OVERSOLD

\* Mutant of RsiRecovery: a missing previous RSI counts as "rising"
RsiRecovery_PrevMissingRises(d) ==
    LET latest == iloc(d, 1)
        prev == iloc(d, 2)
    IN  IF notna(latest.RSI)
        THEN LET was_oversold == WasOversold(d)
                 now_above == Val(latest.RSI) > RSI_OVERSOLD
                 rsi_rising == IF notna(prev.RSI)
                               THEN Val(latest.RSI) > Val(prev.RSI) ELSE TRUE
             IN  was_oversold /\ now_above /\ rsi_rising
        ELSE FALSE

RsiRecovery(d) ==
    LET latest == iloc(d, 1)
        prev == iloc(d, 2)
    IN  IF notna(latest.RSI)
        THEN LET was_oversold == WasOversold(d)
                 now_above == Val(latest.RSI) > RSI_OVERSOLD
                 rsi_rising == IF notna(prev.RSI)
                               THEN Val(latest.RSI) > Val(prev.RSI) ELSE FALSE
             IN  was_oversold /\ now_above /\ rsi_rising
        ELSE FALSE

\* The body of `for i in range(-3, 0)` for i = -k: a bullish cross at bar -k
MacdCrossAt(d, k) ==
    /\ k < d.len /\ k - 1 < d.len
    /\ LET curr == iloc(d, k)
           prev_row == iloc(d, k + 1)
       IN  /\ notna(curr.MACD) /\ notna(curr.MACD_Signal)
           /\ notna(prev_row.MACD) /\ notna(prev_row.MACD_Signal)
           /\ Val(curr.MACD) > Val(curr.MACD_Signal)
           /\ Val(prev_row.MACD) <= Val(prev_row.MACD_Signal)

\* Mutant of MacdScan: the loop runs from i = -1 down to i = -3 (k counts
\* the bars still to visit)
RECURSIVE MacdScan_NewestFirst(_, _)
MacdScan_NewestFirst(d, k) ==
    IF k = 0 THEN [visited |-> <<>>, found |-> FALSE]
    ELSE IF MacdCrossAt(d, 4 - k) THEN [visited |-> <<k - 4>>, found |-> TRUE]
         ELSE LET rest == MacdScan_NewestFirst(d, k - 1)
              IN  [visited |-> <<k - 4>> \o rest.visited, found |-> rest.found]

\* The loop `for i in range(-3, 0)` from i = -k up to i = -1, leaving at the
\* first cross: the values i took and whether a cross was found
RECURSIVE MacdScan(_, _)
MacdScan(d, k) ==
    IF k = 0 THEN [visited |-> <<>>, found |-> FALSE]
    ELSE IF MacdCrossAt(d, k) THEN [visited |-> <<-k>>, found |-> TRUE]
         ELSE LET rest == MacdScan(d, k - 1)
              IN  [visited |-> <<-k>> \o rest.visited, found |-> rest.found]

MacdCrossover(d) ==
    LET latest == iloc(d, 1)
    IN  IF notna(latest.MACD) /\ notna(latest.MACD_Signal)
        THEN MacdScan(d, 3).found
        ELSE FALSE

\* Mutant of BounceScan: the scan runs over supports, not
\* reversed(supports), and so examines the lowest support below the close
\* (i counts the supports still to visit)
RECURSIVE BounceScan_Ascending(_, _, _, _)
BounceScan_Ascending(supports, i, close, prev_close) ==
    IF i = 0 THEN FALSE
    ELSE LET sup == supports[Len(supports) - i + 1]
         IN  IF sup < close
             THEN /\ 100 * (close - sup) <= SUPPORT_PROXIMITY_PCT_X100 * sup
                  /\ close > prev_close
             ELSE BounceScan_Ascending(supports, i - 1, close, prev_close)

\* for sup in reversed(supports): if sup < close: ...; break
RECURSIVE BounceScan(_, _, _, _)
BounceScan(supports, i, close, prev_close) ==
    IF i = 0 THEN FALSE
    ELSE IF supports[i] < close
         THEN \* proximity = (close - sup) / sup <= SUPPORT_PROXIMITY_PCT
              /\ 100 * (close - supports[i]) <= SUPPORT_PROXIMITY_PCT_X100 * supports[i]
              /\ close > prev_close
         ELSE BounceScan(supports, i - 1, close, prev_close)

SupportBounce(d, supports) ==
    BounceScan(supports, Len(supports), Val(iloc(d, 1).Close), Val(iloc(d, 2).Close))

\* Mutant of Filters: a missing EMA_200 lets the price filter pass
Filters_MissingEma200Passes(d) ==
    LET latest == iloc(d, 1)
    IN  [price_above_200ema |-> IsNone(latest.EMA_200) \/ Gt(latest.Close, latest.EMA_200),
         price_min |-> Ge(latest.Close, Some(MIN_PRICE)),
         volume_min |-> notna(latest.Volume_SMA)
                        /\ Ge(latest.Volume_SMA, Some(MIN_AVG_VOLUME))]

Filters(d) ==
    LET latest == iloc(d, 1)
    IN  [price_above_200ema |-> notna(latest.EMA_200) /\ Gt(latest.Close, latest.EMA_200),
         price_min |-> Ge(latest.Close, Some(MIN_PRICE)),
         volume_min |-> notna(latest.Volume_SMA)
                        /\ Ge(latest.Volume_SMA, Some(MIN_AVG_VOLUME))]

\* Mutant of EmaAligned: the two averages in the wrong order
EmaAligned_Reversed(close, ema_20, ema_50) ==
    /\ notna(ema_20) /\ notna(ema_50)
    /\ Gt(close, ema_50)
    /\ Gt(ema_50, ema_20)

\* Signal 1: Close > EMA_20 > EMA_50, both present
EmaAligned(close, ema_20, ema_50) ==
    /\ notna(ema_20) /\ notna(ema_50)
    /\ Gt(close, ema_20)
    /\ Gt(ema_20, ema_50)

Signals(d, supports) ==
    LET latest == iloc(d, 1)
    IN  [ema_aligned |-> EmaAligned(latest.Close, latest.EMA_20, latest.EMA_50),
         rsi_recovery |-> RsiRecovery(d),
         macd_crossover |-> MacdCrossover(d),
         support_bounce |-> SupportBounce(d, supports),
         volume_surge |-> /\ notna(latest.Volume_SMA)
                          /\ Val(latest.Volume_SMA) > 0
                          /\ 10 * Val(latest.Volume)
                                >= VOLUME_SURGE_FACTOR_X10 * Val(latest.Volume_SMA)]

\* Mutant of CountTrue: len(signals) instead of sum(signals.values())
CountTrue_CountsKeys(signals) == Cardinality(DOMAIN signals)

\* sum(signals.values())
CountTrue(signals) == Cardinality({k \in DOMAIN signals : signals[k]})

\* Mutant of AllTrue: any() instead of all()
AllTrue_Any(filters) == \E k \in DOMAIN filters : filters[k]

\* all(filters.values())
AllTrue(filters) == \A k \in DOMAIN filters : filters[k]

Snapshot(d) ==
    LET latest == iloc(d, 1)
    IN  [close |-> latest.Close,
         ema_20 |-> latest.EMA_20,
         ema_50 |-> latest.EMA_50,
         ema_200 |-> latest.EMA_200,
         rsi |-> latest.RSI,
         macd |-> latest.MACD,
         macd_signal |-> latest.MACD_Signal,
         atr |-> latest.ATR,
         volume |-> latest.Volume,
         volume_sma |-> latest.Volume_SMA]

\* The scan as detect_signals runs it: not at all when the frame is too
\* short or fails a filter, or when the latest MACD or signal is missing
MacdLoop(d) ==
    IF IsNone(d) \/ d.len < 50 \/ ~AllTrue(Filters(d)) THEN None
    ELSE IF notna(iloc(d, 1).MACD) /\ notna(iloc(d, 1).MACD_Signal)
         THEN Some(MacdScan(d, 3))
         ELSE None

\* Mutant of detect_signals: no return on a failed filter
detect_signals_NoFilterGate(d) ==
    IF IsNone(d) \/ d.len < 50
    THEN [passed |-> FALSE, reason |-> "insufficient_data"]
    ELSE
    LET sr == find_support_resistance(d)
        filters == Filters(d)
        signals == Signals(d, sr.supports)
        signal_count == CountTrue(signals)
    IN  [passed |-> signal_count >= MIN_SIGNALS_REQUIRED,
         signals |-> signals,
         signal_count |-> signal_count,
         filters |-> filters,
         latest |-> Snapshot(d),
         supports |-> sr.supports,
         resistances |-> sr.resistances]

detect_signals(d) ==
    IF IsNone(d) \/ d.len < 50
    THEN [passed |-> FALSE, reason |-> "insufficient_data"]
    ELSE
    LET sr == find_support_resistance(d)
        filters == Filters(d)
    IN  IF ~AllTrue(filters)
        THEN [passed |-> FALSE, reason |-> "filter_failed", filters |-> filters]
        ELSE
        LET signals == Signals(d, sr.supports)
            signal_count == CountTrue(signals)
        IN  [passed |-> signal_count >= MIN_SIGNALS_REQUIRED,
             signals |-> signals,
             signal_count |-> signal_count,
             filters |-> filters,
             latest |-> Snapshot(d),
             supports |-> sr.supports,
             resistances |-> sr.resistances]

----------------------------------------------------------------------------
(* analysis/levels.py *)

\* Mutant of EntryScan: the scan runs over supports, not reversed(supports),
\* and so stops at the lowest match (i counts the supports still to visit)
RECURSIVE EntryScan_Ascending(_, _, _)
EntryScan_Ascending(supports, close, i) ==
    IF i = 0 THEN close
    ELSE LET sup == supports[Len(supports) - i + 1]
         IN  IF sup < close /\ 100 * (close - sup) <= sup
             THEN sup
             ELSE EntryScan_Ascending(supports, close, i - 1)

\* for sup in reversed(supports): if sup < close and (close - sup)/sup <= 0.01:
\*     entry = sup; break            (supports are positive prices)
RECURSIVE EntryScan(_, _, _)
EntryScan(supports, close, i) ==
    IF i = 0 THEN close
    ELSE IF supports[i] < close /\ 100 * (close - supports[i]) <= supports[i]
         THEN supports[i]
         ELSE EntryScan(supports, close, i - 1)

\* [s for s in supports if s < entry * 0.99]
SupportBelow(supports, entry) ==
    SelectSeq(supports, LAMBDA s : 100 * s < 99 * entry)

\* Mutant of ResistanceAbove: r > entry, without the 1% margin
ResistanceAbove_NoMargin(resistances, entry) ==
    SelectSeq(resistances, LAMBDA r : r > entry)

\* [r for r in resistances if r > entry * 1.01]
ResistanceAbove(resistances, entry) ==
    SelectSeq(resistances, LAMBDA r : 100 * r > 101 * entry)

\* Mutant of StopLoss: min() instead of max(), the lower of the two stops
StopLoss_Lower(supports, entry, atr) ==
    LET atr_stop == 10000 * entry - ATR_SL_MULTIPLIER_X10 * 1000 * atr
        support_below == SupportBelow(supports, entry)
    IN  IF support_below /= <<>>
        THEN Min(atr_stop, support_below[Len(support_below)] * 9950)
        ELSE atr_stop

\* Mutant of StopLoss: support_below[0], the farthest qualifying support
StopLoss_FarthestSupport(supports, entry, atr) ==
    LET atr_stop == 10000 * entry - ATR_SL_MULTIPLIER_X10 * 1000 * atr
        support_below == SupportBelow(supports, entry)
    IN  IF support_below /= <<>>
        THEN Max(atr_stop, support_below[1] * 9950)
        ELSE atr_stop

\* stop_loss in 1e-7 units: the ATR stop, or the higher of it and the stop
\* just below the nearest support under 99% of entry.
StopLoss(supports, entry, atr) ==
    LET atr_stop == 10000 * entry - ATR_SL_MULTIPLIER_X10 * 1000 * atr
        support_below == SupportBelow(supports, entry)
    IN  IF support_below /= <<>>
        THEN LET nearest_support == support_below[Len(support_below)]
                 support_stop == nearest_support * 9950
             IN  Max(atr_stop, support_stop)
        ELSE atr_stop

\* The values compute_levels(signal_result) can return: None or a plan, as
\* sequences of length 0 and 1.  The set has one member except where the
\* result hangs on a float rounding (see Round, and the gate below).
compute_levels(sr) ==
    LET latest == Get(sr, "latest", <<>>)
        supports == Get(sr, "supports", <<>>)
        resistances == Get(sr, "resistances", <<>>)
        close == Get(latest, "close", None)
        atr == Get(latest, "atr", None)
    IN  IF IsNone(close) \/ IsNone(atr) \/ Val(atr) <= 0 THEN {None}
        ELSE
        LET entry == EntryScan(supports, Val(close), Len(supports))
            stop_loss == StopLoss(supports, entry, Val(atr))
            risk == 10000 * entry - stop_loss
        IN  IF risk <= 0 THEN {None}
            ELSE
            LET target_1 == 10000 * entry + MIN_RISK_REWARD * risk
                resistance_above == ResistanceAbove(resistances, entry)
                target_2 == IF resistance_above /= <<>>
                            THEN 10000 * resistance_above[1]
                            ELSE target_1 + target_1 \div 50
                use_t2 == target_2 > target_1
                primary_target == IF use_t2 THEN target_2 ELSE target_1
                reward == primary_target - 10000 * entry
                plans ==
                    { Some([p EXCEPT !.primary_target =
                                IF use_t2 THEN p.target_2 ELSE p.target_1]) :
                      p \in [entry : Round(entry, 10),
                             stop_loss : Round(stop_loss, 100000),
                             target_1 : Round(target_1, 100000),
                             target_2 : Round(target_2, 100000),
                             primary_target : {0},
                             risk : Round(risk, 100000),
                             reward : Round(reward, 100000),
                             risk_reward : RoundRatio2(reward, risk)] }
            IN  \* risk_reward = reward / risk
                \* if risk_reward < MIN_RISK_REWARD: return None
                \* When the target is target_1 the quotient is exactly 2 in
                \* the reals, and the float ((entry + 2.0 * risk) - entry) / risk
                \* comes out as 2.0 or a hair below it.
                IF reward < MIN_RISK_REWARD * risk THEN {None}
                ELSE IF reward = MIN_RISK_REWARD * risk THEN {None} \cup plans
                ELSE plans

----------------------------------------------------------------------------
(* analysis/scorer.py *)

\* SCORE_WEIGHTS, in hundredths
SCORE_WEIGHTS == [signals |-> 30, risk_reward |-> 25, volume |-> 15,
                  trend |-> 15, rsi |-> 15]

\* A value is truthy: `if ema_20`, `if volume_sma`
Truthy(x) == notna(x) /\ Val(x) /= 0

\* Factor 1: (signal_count / max_signals) * 100, in points
SignalScore(signals) == (CountTrue(signals) * 100) \div Cardinality(DOMAIN signals)

\* Factor 4: trend strength, in points
TrendScore(latest) ==
    LET close == Get(latest, "close", Some(0))
        ema_20 == Get(latest, "ema_20", None)
        ema_50 == Get(latest, "ema_50", None)
        ema_200 == Get(latest, "ema_200", None)
    IN  (IF Truthy(ema_20) /\ Gt(close, ema_20) THEN 33 ELSE 0)
        + (IF Truthy(ema_50) /\ Truthy(ema_20) /\ Gt(ema_20, ema_50) THEN 33 ELSE 0)
        + (IF Truthy(ema_200) /\ Truthy(ema_50) /\ Gt(ema_50, ema_200) THEN 34 ELSE 0)

\* Mutant of RsiScore: `40 < rsi <= 60`, the ideal zone open at 40
RsiScore_OpenAt40(latest) ==
    LET got == Get(latest, "rsi", Some(50))
        rsi == IF IsNone(got) THEN 50 ELSE Val(got)
    IN  IF 40 < rsi /\ rsi <= 60 THEN 100
        ELSE IF (30 <= rsi /\ rsi < 40) \/ (60 < rsi /\ rsi <= 70) THEN 70
        ELSE IF rsi < 30 THEN 40
        ELSE Max(0, 100 - (rsi - 70) * 5)

\* Factor 5: RSI positioning, in points
RsiScore(latest) ==
    LET got == Get(latest, "rsi", Some(50))
        rsi == IF IsNone(got) THEN 50 ELSE Val(got)
    IN  IF 40 <= rsi /\ rsi <= 60 THEN 100
        ELSE IF (30 <= rsi /\ rsi < 40) \/ (60 < rsi /\ rsi <= 70) THEN 70
        ELSE IF rsi < 30 THEN 40
        ELSE Max(0, 100 - (rsi - 70) * 5)

\* One record of the breakdown; raw_score and weighted in tenths, weight in
\* hundredths (the reason text is left out)
Factor(name, raw_score, weight, weighted) ==
    [name |-> name, raw_score |-> raw_score, weight |-> weight, weighted |-> weighted]

\* Mutant of RiskRewardFactors: rr_score = (rr / 4.0) * 100, without the cap
RiskRewardFactors_NoCap(rr) ==
    {Factor("Risk / Reward", raw, SCORE_WEIGHTS.risk_reward, weighted) :
        raw \in Round(10 * rr, 4), weighted \in Round(rr * SCORE_WEIGHTS.risk_reward, 40)}

\* Factor 2: rr_score = min(100, (rr / 4.0) * 100), rr in hundredths.
\* The records round(rr_score, 1) and round(rr_score * weight, 1) can give.
RiskRewardFactors(rr) ==
    LET w == SCORE_WEIGHTS.risk_reward
    IN  IF rr >= 400
        THEN {Factor("Risk / Reward", 1000, w, 10 * w)}
        ELSE {Factor("Risk / Reward", raw, w, weighted) :
                raw \in Round(10 * rr, 4), weighted \in Round(rr * w, 40)}

\* Factor 3: vol_score = min(100, (volume / volume_sma) / (1.5 * 2) * 100)
VolumeFactors(latest) ==
    LET volume == Val(Get(latest, "volume", Some(0)))
        volume_sma == Get(latest, "volume_sma", Some(1))
        w == SCORE_WEIGHTS.volume
        \* (VOLUME_SURGE_FACTOR * 2) * volume_sma
        full == (2 * VOLUME_SURGE_FACTOR_X10 * Val(volume_sma)) \div 10
    IN  IF Truthy(volume_sma) /\ Val(volume_sma) > 0
        THEN IF volume >= full
             THEN {Factor("Volume", 1000, w, 10 * w)}
             ELSE {Factor("Volume", raw, w, weighted) :
                     raw \in Round(1000 * volume, full),
                     weighted \in Round(10 * w * volume, full)}
        ELSE {Factor("Volume", 0, w, 0)}

\* A factor whose raw score is a whole number of points
PointFactors(name, points, w) ==
    {Factor(name, 10 * points, w, weighted) : weighted \in Round(points * w, 10)}

\* Mutant of Total: the sum of raw_score * weight instead of the weighted fields
Total_FromRawScores(factors) ==
    LET n == SumSeq([k \in 1..Len(factors) |-> factors[k].raw_score * factors[k].weight])
    IN  Min(1000, Max(0, (n + 50) \div 100))

\* total = round(min(100, max(0, sum(f["weighted"] for f in factors))), 1)
Total(factors) ==
    Min(1000, Max(0, SumSeq([k \in 1..Len(factors) |-> factors[k].weighted])))

\* The values compute_score(signal_result, levels) can return (one value,
\* except where a round() falls on a decimal tie)
compute_score(sr, lv) ==
    LET signals == Get(sr, "signals", <<>>)
        latest == Get(sr, "latest", <<>>)
        rr == Get(lv, "risk_reward", 100 * MIN_RISK_REWARD)
    IN  { [total |-> Total(<<f1, f2, f3, f4, f5>>), factors |-> <<f1, f2, f3, f4, f5>>] :
            f1 \in PointFactors("Signal Count", SignalScore(signals), SCORE_WEIGHTS.signals),
            f2 \in RiskRewardFactors(rr),
            f3 \in VolumeFactors(latest),
            f4 \in PointFactors("Trend Strength", TrendScore(latest), SCORE_WEIGHTS.trend),
            f5 \in PointFactors("RSI Position", RsiScore(latest), SCORE_WEIGHTS.rsi) }

\* key=lambda c: c.get("score", 0)
ScoreOf(c) == IF "score" \in DOMAIN c THEN c.score ELSE 0

\* Mutant of KeyInsert: ties go in front (sorted ascending, then reversed)
RECURSIVE KeyInsert_TiesInFront(_, _)
KeyInsert_TiesInFront(sorted, c) ==
    IF sorted = <<>> THEN <<c>>
    ELSE IF ScoreOf(c) >= ScoreOf(sorted[1]) THEN <<c>> \o sorted
         ELSE <<sorted[1]>> \o KeyInsert_TiesInFront(Tail(sorted), c)

\* sorted(..., key=score, reverse=True) is stable: built by inserting each
\* candidate, in input order, behind every candidate whose score is not lower
RECURSIVE KeyInsert(_, _)
KeyInsert(sorted, c) ==
    IF sorted = <<>> THEN <<c>>
    ELSE IF ScoreOf(c) > ScoreOf(sorted[1]) THEN <<c>> \o sorted
         ELSE <<sorted[1]>> \o KeyInsert(Tail(sorted), c)

RECURSIVE rank_candidates(_)
rank_candidates(cs) ==
    IF cs = <<>> THEN <<>>
    ELSE KeyInsert(rank_candidates(SubSeq(cs, 1, Len(cs) - 1)), cs[Len(cs)])

----------------------------------------------------------------------------
(* Input spaces *)

\* Longest support / resistance list handed to compute_levels
MaxLevels == 2

\* The ascending sequence of the members of a finite set of integers
RECURSIVE SetToSeq(_)
SetToSeq(S) ==
    IF S = {} THEN <<>>
    ELSE LET m == CHOOSE x \in S : \A y \in S : x <= y
         IN  <<m>> \o SetToSeq(S \ {m})

\* Lists find_support_resistance can return: ascending cluster means, each
\* more than 1.5% above the one before it.
IsClustered(xs) ==
    \A i \in 1..(Len(xs) - 1) : 1000 * (xs[i + 1] - xs[i]) > 15 * xs[i]

LevelLists(S) ==
    { xs \in { SetToSeq(T) : T \in SUBSET S } : Len(xs) <= MaxLevels /\ IsClustered(xs) }

\* compute_levels takes the lists as they are handed to it: ascending lists,
\* of which the clustered ones are those find_support_resistance returns.
AscendingLists(S) ==
    { xs \in { SetToSeq(T) : T \in SUBSET S } : Len(xs) <= MaxLevels }

LvCloses == {97000, 100000}
LvAtrs == {None, Some(0), Some(2), Some(3), Some(4), Some(300), Some(2000)}
LvSupports == {95000, 98900, 99000, 99200, 99500}
LvResistances == {100500, 101000, 103000, 110000}

\* The part of a passed signal result that compute_levels reads
LevelInput(close, atr, supports, resistances) ==
    [passed |-> TRUE,
     latest |-> [close |-> Some(close), atr |-> atr],
     supports |-> supports,
     resistances |-> resistances]

----------------------------------------------------------------------------
(* DataFrames handed to detect_signals.

   The five signals and the filters read disjoint parts of the frame, so the
   frames are taken in slices: one part ranges over all of its values while
   each other part takes one of two representative values (one that makes
   its signal true, one that makes it false).                              *)

Abs(x) == IF x >= 0 THEN x ELSE -x

\* A price path: a triangular wave of half-period `half` and slope `step`
\* per bar on top of a drift, the low of bar i (of n); the high is `spread`
\* above it.
PathLow(p, i) == p.base + p.drift * i + p.step * Abs(((i + p.phase) % (2 * p.half)) - p.half)

Paths ==
    { [base |-> 99500, drift |-> 0, step |-> 300, half |-> 6, phase |-> 0, spread |-> 500],
      [base |-> 98500, drift |-> 0, step |-> 300, half |-> 6, phase |-> 3, spread |-> 500],
      [base |-> 97000, drift |-> 0, step |-> 300, half |-> 8, phase |-> 0, spread |-> 500],
      [base |-> 92000, drift |-> 100, step |-> 0, half |-> 6, phase |-> 0, spread |-> 500],
      [base |-> 91000, drift |-> 150, step |-> 300, half |-> 6, phase |-> 0, spread |-> 500],
      [base |-> 98000, drift |-> 0, step |-> 0, half |-> 6, phase |-> 0, spread |-> 500],
      [base |-> 100200, drift |-> 0, step |-> 300, half |-> 6, phase |-> 0, spread |-> 500] }

\* Low/High columns of the last min(n, Lookback) bars; the last two bars
\* are widened to contain their closes.
LowColumn(p, n, prev_close, close) ==
    LET m == Min(n, Lookback)
    IN  [i \in 1..m |-> IF i = m THEN Min(PathLow(p, i), close)
                        ELSE IF i = m - 1 THEN Min(PathLow(p, i), prev_close)
                        ELSE PathLow(p, i)]

HighColumn(p, n, prev_close, close) ==
    LET m == Min(n, Lookback)
    IN  [i \in 1..m |-> IF i = m THEN Max(PathLow(p, i) + p.spread, close)
                        ELSE IF i = m - 1 THEN Max(PathLow(p, i) + p.spread, prev_close)
                        ELSE PathLow(p, i) + p.spread]

\* A column whose older rows are never read
Flat(v) == <<v, v, v, v, v>>

DataFrame(f, e, rsi, m, s, v) ==
    [len |-> f.len,
     Close |-> <<Some(s.prev_close), Some(s.prev_close), Some(s.prev_close),
                 Some(s.prev_close), Some(f.close)>>,
     EMA_20 |-> Flat(e.ema_20),
     EMA_50 |-> Flat(e.ema_50),
     EMA_200 |-> Flat(f.ema_200),
     RSI |-> rsi,
     MACD |-> <<m[1][1]>> \o [k \in 1..4 |-> m[k][1]],
     MACD_Signal |-> <<m[1][2]>> \o [k \in 1..4 |-> m[k][2]],
     ATR |-> Flat(f.atr),
     Volume |-> Flat(Some(v)),
     Volume_SMA |-> Flat(f.volume_sma),
     High |-> HighColumn(s.path, f.len, s.prev_close, f.close),
     Low |-> LowColumn(s.path, f.len, s.prev_close, f.close)]

\* Filter part
FullF == [len : {49, 50, 59, 60, 250}, close : {49999, 50000, 100000},
          ema_200 : {None, Some(90000), Some(100000)},
          volume_sma : {None, Some(0), Some(99999), Some(100000)},
          atr : {Some(1500)}]
RepF == {[len |-> 60, close |-> 100000, ema_200 |-> Some(90000),
          volume_sma |-> Some(200000), atr |-> Some(1500)]}

\* EMA part
FullE == [ema_20 : {None, Some(98000), Some(100000), Some(101000)},
          ema_50 : {None, Some(97000), Some(98000), Some(99000)}]
RepE == {[ema_20 |-> Some(99000), ema_50 |-> Some(98000)],
         [ema_20 |-> None, ema_50 |-> None]}

\* RSI part: the last five values
FullR == { <<r5, r4, r3, r2, r1>> :
             r5 \in {Some(40), Some(45)}, r4 \in {Some(40), Some(45)},
             r3 \in {None, Some(40), Some(45)},
             r2 \in {None, Some(38), Some(45), Some(50)},
             r1 \in {None, Some(40), Some(41), Some(48)} }
RepR == { <<Some(45), Some(45), Some(38), Some(39), Some(45)>>,
          <<None, None, None, None, None>> }

\* MACD part: <<MACD, MACD_Signal>> of bars -4 .. -1
MacdRows == {<<None, Some(0)>>, <<Some(0), None>>, <<Some(0), Some(0)>>,
             <<Some(1), Some(0)>>}
FullM == { <<m4, m3, m2, m1>> : m4 \in MacdRows, m3 \in MacdRows,
                                m2 \in MacdRows, m1 \in MacdRows }
RepM == { << <<Some(-1), Some(0)>>, <<Some(-1), Some(0)>>,
             <<Some(-1), Some(0)>>, <<Some(1), Some(0)>> >>,
          << <<None, None>>, <<None, None>>, <<None, None>>, <<None, None>> >> }

\* Support part: the price path and the previous close
FullS == [path : Paths, prev_close : {99900, 100000, 100100}]
RepS == {[path |-> CHOOSE p \in Paths : p.base = 98500, prev_close |-> 99900],
         [path |-> CHOOSE p \in Paths : p.base = 92000, prev_close |-> 100100]}

\* Volume part
FullV == {100000, 299999, 300000, 400000}
RepV == {300000, 100000}

Slices ==
    (FullF \X RepE \X RepR \X RepM \X RepS \X RepV)
    \cup (RepF \X FullE \X RepR \X RepM \X RepS \X RepV)
    \cup (RepF \X RepE \X FullR \X RepM \X RepS \X RepV)
    \cup (RepF \X RepE \X RepR \X FullM \X RepS \X RepV)
    \cup (RepF \X RepE \X RepR \X RepM \X FullS \X RepV)
    \cup (RepF \X RepE \X RepR \X RepM \X RepS \X FullV)

\* The last five rows of an EMA of window w over flat closes of 100.0
\* followed by one close of 105.0, len bars in all: not available on the
\* first w - 1 bars, 100.0 on the flat bars, 100 + 5 * 2 / (w + 1) on the last
EmaColumn(w, len) ==
    [k \in 1..5 |-> IF len - 5 + k < w THEN None
                    ELSE Some(IF k = 5 THEN 100000 + 10000 \div (w + 1) ELSE 100000)]

\* compute_indicators on n flat bars (close 100, high 101, low 99, volume
\* 100000) followed by one bar that closes 5% up (low 100, high 105) on the
\* same volume.  flat_rsi is the RSI of a bar with no gain and no loss behind
\* it; MACD is EMA_12 - EMA_26 and its signal a 9-bar EMA of that.
FlatRally(n, flat_rsi) ==
    [len |-> n + 1,
     Close |-> <<Some(100000), Some(100000), Some(100000), Some(100000), Some(105000)>>,
     EMA_20 |-> EmaColumn(20, n + 1),
     EMA_50 |-> EmaColumn(50, n + 1),
     EMA_200 |-> EmaColumn(200, n + 1),
     RSI |-> <<flat_rsi, flat_rsi, flat_rsi, flat_rsi, Some(100)>>,
     MACD |-> <<Some(0), Some(0), Some(0), Some(0), Some(10000 \div 13 - 10000 \div 27)>>,
     MACD_Signal |-> <<Some(0), Some(0), Some(0), Some(0),
                       Some((10000 \div 13 - 10000 \div 27) \div 5)>>,
     ATR |-> <<Some(2000), Some(2000), Some(2000), Some(2000), Some(2214)>>,
     Volume |-> Flat(Some(100000)),
     Volume_SMA |-> Flat(Some(100000)),
     High |-> [i \in 1..Min(n + 1, Lookback) |->
                 IF i = Min(n + 1, Lookback) THEN 105000 ELSE 101000],
     Low |-> [i \in 1..Min(n + 1, Lookback) |->
                 IF i = Min(n + 1, Lookback) THEN 100000 ELSE 99000]]

RallyFrames == { FlatRally(n, r) : n \in {60, 250}, r \in {None, Some(100)} }

DataFrames ==
    { DataFrame(x[1], x[2], x[3], x[4], x[5], x[6]) : x \in Slices } \cup RallyFrames

----------------------------------------------------------------------------
(* detect_signals on its own *)

InitSignals ==
    /\ pc = "detect_signals"
    /\ df \in DataFrames
    /\ result = None
    /\ levels = None
    /\ score_result = None
    /\ RankIdle /\ ClusterIdle /\ ScanIdle /\ IndIdle /\ LoopIdle /\ OthersIdle

DetectSignals ==
    /\ pc = "detect_signals"
    /\ result' = detect_signals(df)
    /\ pc' = "signals_done"
    /\ macd_loop' = MacdLoop(df)
    /\ UNCHANGED <<df, levels, score_result, rankVars, clusterVars, scanVars, indVars, otherVars>>

NextSignals == DetectSignals

SpecSignals == InitSignals /\ [][NextSignals]_vars

Done == pc = "signals_done"
Bool2Int(b) == IF b THEN 1 ELSE 0

\* C2: detect_signals reports negative outcomes as values, in a fixed order:
\* fewer than 50 bars gives exactly {passed: false, reason:
\* "insufficient_data"} with no filter map; otherwise, when one of the three
\* filters is false, it gives passed=false, reason "filter_failed" and the
\* filter map, and nothing else (no signals, count, snapshot or levels).
C2_NegativeOutcomesAreValues ==
    Done =>
        IF df.len < 50
        THEN result = [passed |-> FALSE, reason |-> "insufficient_data"]
        ELSE LET latest == iloc(df, 1)
                 above == notna(latest.EMA_200) /\ Val(latest.Close) > Val(latest.EMA_200)
                 vol == notna(latest.Volume_SMA) /\ Val(latest.Volume_SMA) >= MIN_AVG_VOLUME
             IN  /\ DOMAIN result.filters = {"price_above_200ema", "price_min", "volume_min"}
                 /\ result.filters.price_above_200ema = above
                 /\ result.filters.volume_min = vol
                 /\ (~above \/ ~vol \/ ~result.filters.price_min) =>
                        /\ DOMAIN result = {"passed", "reason", "filters"}
                        /\ result.passed = FALSE
                        /\ result.reason = "filter_failed"

C2_Witness ==
    /\ Done /\ df.len >= 50
    /\ "reason" \in DOMAIN result /\ result.reason = "filter_failed"
    /\ result.filters.price_above_200ema /\ result.filters.price_min
    /\ ~result.filters.volume_min

\* C3: when all filters pass, the signal map has exactly the five keys,
\* signal_count is the number of true signals (0..5), and passed holds if
\* and only if signal_count >= MIN_SIGNALS_REQUIRED.
C3_SignalCountAndPassed ==
    (Done /\ "filters" \in DOMAIN result
          /\ \A k \in DOMAIN result.filters : result.filters[k]) =>
        /\ "signals" \in DOMAIN result
        /\ DOMAIN result.signals = {"ema_aligned", "rsi_recovery", "macd_crossover",
                                    "support_bounce", "volume_surge"}
        /\ result.signal_count =
              Bool2Int(result.signals.ema_aligned) + Bool2Int(result.signals.rsi_recovery)
              + Bool2Int(result.signals.macd_crossover)
              + Bool2Int(result.signals.support_bounce)
              + Bool2Int(result.signals.volume_surge)
        /\ result.signal_count \in 0..5
        /\ result.passed = (result.signal_count >= MIN_SIGNALS_REQUIRED)

C3_Witness ==
    /\ Done /\ "signal_count" \in DOMAIN result
    /\ result.signal_count = MIN_SIGNALS_REQUIRED /\ result.passed

\* C10: missing indicator values degrade to false, never to an error:
\* ema_aligned only with EMA_20 and EMA_50 present and close > EMA_20 >
\* EMA_50; volume_surge only with Volume_SMA present, positive and volume
\* >= 1.5 x Volume_SMA; rsi_recovery false when the current or previous RSI
\* is absent; macd_crossover false unless the latest MACD and signal are
\* present and some compared pair of bars has all four values present.
C10_MissingValuesDegrade ==
    (Done /\ "signals" \in DOMAIN result) =>
        LET latest == iloc(df, 1)
            prev == iloc(df, 2)
            sig == result.signals
            present(k) == /\ df.MACD[6 - k] /= None /\ df.MACD_Signal[6 - k] /= None
                          /\ df.MACD[5 - k] /= None /\ df.MACD_Signal[5 - k] /= None
        IN  /\ sig.ema_aligned =>
                  /\ latest.EMA_20 /= None /\ latest.EMA_50 /= None
                  /\ Val(latest.Close) > Val(latest.EMA_20)
                  /\ Val(latest.EMA_20) > Val(latest.EMA_50)
            /\ sig.volume_surge =>
                  /\ latest.Volume_SMA /= None /\ Val(latest.Volume_SMA) > 0
                  /\ 10 * Val(latest.Volume) >= 15 * Val(latest.Volume_SMA)
            /\ (latest.RSI = None \/ prev.RSI = None) => ~sig.rsi_recovery
            /\ (latest.MACD = None \/ latest.MACD_Signal = None) => ~sig.macd_crossover
            /\ (\A k \in 1..3 : ~present(k)) => ~sig.macd_crossover

C10_Witness ==
    /\ Done /\ "signals" \in DOMAIN result /\ result.passed
    /\ iloc(df, 1).RSI /= None /\ iloc(df, 2).RSI = None
    /\ ~result.signals.rsi_recovery

----------------------------------------------------------------------------
(* compute_levels on its own *)

InitLevels ==
    /\ pc = "compute_levels"
    /\ \E close \in LvCloses, atr \in LvAtrs,
          supports \in AscendingLists(LvSupports),
          resistances \in LevelLists(LvResistances) :
            result = LevelInput(close, atr, supports, resistances)
    /\ levels = None
    /\ df = None
    /\ score_result = None
    /\ RankIdle /\ ClusterIdle /\ ScanIdle /\ IndIdle /\ LoopIdle /\ OthersIdle

ComputeLevels ==
    /\ pc = "compute_levels"
    /\ levels' \in compute_levels(result)
    /\ pc' = "levels_done"
    /\ UNCHANGED <<df, result, score_result, rankVars, clusterVars, scanVars, indVars, loopVars, otherVars>>

NextLevels == ComputeLevels

SpecLevels == InitLevels /\ [][NextLevels]_vars

\* C1: every plan compute_levels returns has risk_reward >= MIN_RISK_REWARD
\* and strictly positive risk and reward fields; an input whose risk would
\* not be strictly positive yields None, never a record holding a zero.
C1_PlanFieldsPositive ==
    (pc = "levels_done" /\ levels /= None) =>
        /\ Val(levels).risk_reward >= 100 * MIN_RISK_REWARD
        /\ Val(levels).risk > 0
        /\ Val(levels).reward > 0

----------------------------------------------------------------------------
(* Ranking: rank_candidates on lists of scored candidates *)

MaxCandidates == 3

Symbols == {"A", "B", "C", "D"}

\* Composite scores, in tenths
Scores == {500, 570, 700}

\* Lists of up to MaxCandidates candidates with distinct symbols
CandidateLists ==
    UNION { { cs \in [1..n -> [symbol : Symbols, score : Scores]] :
                \A i, j \in 1..n : i /= j => cs[i].symbol /= cs[j].symbol } :
            n \in 0..MaxCandidates }

InitRank ==
    /\ pc = "rank_candidates"
    /\ candidates \in CandidateLists
    /\ ranked = <<>>
    /\ df = None /\ result = None /\ levels = None /\ score_result = None
    /\ ClusterIdle /\ ScanIdle /\ IndIdle /\ LoopIdle /\ OthersIdle

RankCandidates ==
    /\ pc = "rank_candidates"
    /\ ranked' = rank_candidates(candidates)
    /\ pc' = "rank_done"
    /\ UNCHANGED <<candidates, pipeVars, clusterVars, scanVars, indVars, loopVars, otherVars>>

NextRank == RankCandidates

SpecRank == InitRank /\ [][NextRank]_vars

\* Position of the candidate with symbol s in the list cs
IndexOf(cs, s) == CHOOSE k \in 1..Len(cs) : cs[k].symbol = s

\* C4: rank_candidates is a stable sort by score, descending: the output
\* holds the input's candidates, every candidate precedes all candidates
\* with a strictly lower score, and candidates with equal scores keep their
\* relative input order.
C4_RankStableDescending ==
    pc = "rank_done" =>
        /\ Len(ranked) = Len(candidates)
        /\ {ranked[k] : k \in 1..Len(ranked)} = {candidates[k] : k \in 1..Len(candidates)}
        /\ \A i, j \in 1..Len(ranked) :
              /\ ranked[i].score > ranked[j].score => i < j
              /\ (i < j /\ ranked[i].score = ranked[j].score) =>
                    IndexOf(candidates, ranked[i].symbol) < IndexOf(candidates, ranked[j].symbol)

\* [A(50), B(50), C(70)] gives [C, A, B]
C4_Witness ==
    /\ pc = "rank_done"
    /\ candidates = << [symbol |-> "A", score |-> 500], [symbol |-> "B", score |-> 500],
                       [symbol |-> "C", score |-> 700] >>
    /\ ranked = << [symbol |-> "C", score |-> 700], [symbol |-> "A", score |-> 500],
                   [symbol |-> "B", score |-> 500] >>

----------------------------------------------------------------------------
(* Scoring: compute_score on passed signal results and their plans *)

\* Signal maps of a passed result, one for each number of true signals from
\* MIN_SIGNALS_REQUIRED to 5 (compute_score reads the map through sum and len)
ScSignals ==
    { sig \in [{"ema_aligned", "rsi_recovery", "macd_crossover",
                "support_bounce", "volume_surge"} -> BOOLEAN] :
        /\ CountTrue(sig) >= MIN_SIGNALS_REQUIRED
        /\ sig.ema_aligned => sig.rsi_recovery
        /\ sig.rsi_recovery => sig.macd_crossover
        /\ sig.macd_crossover => sig.support_bounce
        /\ sig.support_bounce => sig.volume_surge }

ScCloses == {100000}
ScEma20 == {None, Some(99000), Some(101000)}
ScEma50 == {None, Some(98000), Some(100000)}
\* the filters of a passed result: EMA_200 present and below the close
ScEma200 == {Some(90000), Some(98500)}
ScRsi == {None, Some(25), Some(30), Some(60), Some(71), Some(90)}
ScVolume == {0, 150800, 400000}
\* the filters of a passed result: Volume_SMA present and >= MIN_AVG_VOLUME
ScVolumeSma == {100000, 200000}

\* The plans compute_levels returns on the level inputs, one per risk_reward
ScPlans ==
    LET all == UNION { compute_levels(LevelInput(c, a, s, r)) :
                         c \in ScCloses, a \in {Some(300), Some(2000)},
                         s \in LevelLists(LvSupports), r \in LevelLists(LvResistances) }
                 \ {None}
    IN  { p \in all : p = CHOOSE q \in all : Val(q).risk_reward = Val(p).risk_reward }

\* The part of a passed signal result that compute_score reads
ScoreInput(signals, close, ema_20, ema_50, ema_200, rsi, volume, volume_sma) ==
    [passed |-> TRUE,
     signals |-> signals,
     signal_count |-> CountTrue(signals),
     latest |-> [close |-> Some(close), ema_20 |-> ema_20, ema_50 |-> ema_50,
                 ema_200 |-> ema_200, rsi |-> rsi,
                 volume |-> Some(volume), volume_sma |-> Some(volume_sma)]]

InitScore ==
    /\ pc = "compute_score"
    /\ \E signals \in ScSignals, close \in ScCloses, ema_20 \in ScEma20,
          ema_50 \in ScEma50, ema_200 \in ScEma200, rsi \in ScRsi,
          volume \in ScVolume, volume_sma \in ScVolumeSma :
            result = ScoreInput(signals, close, ema_20, ema_50, ema_200, rsi,
                                volume, volume_sma)
    /\ levels \in ScPlans
    /\ score_result = None
    /\ df = None
    /\ RankIdle /\ ClusterIdle /\ ScanIdle /\ IndIdle /\ LoopIdle /\ OthersIdle

ComputeScore ==
    /\ pc = "compute_score"
    /\ \E sc \in compute_score(result, Val(levels)) : score_result' = Some(sc)
    /\ pc' = "score_done"
    /\ UNCHANGED <<df, result, levels, rankVars, clusterVars, scanVars, indVars, loopVars, otherVars>>

NextScore == ComputeScore

SpecScore == InitScore /\ [][NextScore]_vars

\* The factor records in the order ord (a permutation of 1..5)
Reordered(factors, ord) == [k \in 1..Len(factors) |-> factors[ord[k]]]

\* The orders that exchange two neighbours; every order of the five factors
\* is a composition of these
Orders ==
    { [i \in 1..5 |-> IF i = k THEN k + 1 ELSE IF i = k + 1 THEN k ELSE i] : k \in 1..4 }

ExactWeighted(sr, lv) ==
    LET latest == sr.latest
        rr == lv.risk_reward
        volume == Val(latest.volume)
        volume_sma == latest.volume_sma
        full == (2 * VOLUME_SURGE_FACTOR_X10 * Val(volume_sma)) \div 10
    IN  << <<SignalScore(sr.signals) * SCORE_WEIGHTS.signals, 10>>,
           IF rr >= 400 THEN <<10 * SCORE_WEIGHTS.risk_reward, 1>>
                        ELSE <<rr * SCORE_WEIGHTS.risk_reward, 40>>,
           IF ~(Truthy(volume_sma) /\ Val(volume_sma) > 0) THEN <<0, 1>>
           ELSE IF volume >= full THEN <<10 * SCORE_WEIGHTS.volume, 1>>
           ELSE <<10 * SCORE_WEIGHTS.volume * volume, full>>,
           <<TrendScore(latest) * SCORE_WEIGHTS.trend, 10>>,
           <<RsiScore(latest) * SCORE_WEIGHTS.rsi, 10>> >>

\* The sum of the fractions qs, clamped to [0,100] and rounded once to a tenth
RoundedSum(qs) ==
    LET whole == SumSeq([k \in 1..Len(qs) |-> qs[k][1] \div qs[k][2]])
        den == 40 * qs[3][2]
        rest == SumSeq([k \in 1..Len(qs) |-> (qs[k][1] % qs[k][2]) * (den \div qs[k][2])])
    IN  { Min(1000, Max(0, whole + h)) : h \in Round(rest, den) }

\* C6 (as stated): the total equals the sum over the five factors of the
\* unrounded raw_score x weight, clamped to [0,100] and rounded once to one
\* decimal place.
C6_TotalFromUnroundedProducts ==
    pc = "score_done" =>
        Val(score_result).total \in RoundedSum(ExactWeighted(result, Val(levels)))

\* C6 (amended): each factor's weighted field is its raw_score x weight
\* rounded to one decimal place, and the total equals the sum of the five
\* weighted fields, clamped to [0,100].
C6_TotalSumsWeightedFields ==
    pc = "score_done" =>
        LET sc == Val(score_result)
            qs == ExactWeighted(result, Val(levels))
        IN  /\ \A k \in 1..5 : sc.factors[k].weighted \in Round(qs[k][1], qs[k][2])
            /\ sc.total = Min(1000, Max(0,
                  sc.factors[1].weighted + sc.factors[2].weighted + sc.factors[3].weighted
                  + sc.factors[4].weighted + sc.factors[5].weighted))

\* A result whose rounded parts add up to less than the rounded exact sum
C6_Witness ==
    /\ pc = "score_done"
    /\ Val(score_result).total \notin RoundedSum(ExactWeighted(result, Val(levels)))

----------------------------------------------------------------------------
(* Clustering: _cluster_levels applied to its own output *)

MaxRawLevels == 4

\* find_support_resistance(..., tolerance=0.015), in thousandths
Tolerance == 15

\* Positive price levels, in float spacings: equal ones, ones just inside
\* and just outside the tolerance of each other, and a far one
ClLevels == {1000, 1015, 1016, 1031, 1032, 2000}

InitCluster ==
    /\ pc = "cluster"
    /\ raw_levels \in UNION { [1..n -> ClLevels] : n \in 0..MaxRawLevels }
    /\ clustered = <<>>
    /\ reclustered = <<>>
    /\ df = None /\ result = None /\ levels = None /\ score_result = None
    /\ RankIdle /\ ScanIdle /\ IndIdle /\ LoopIdle /\ OthersIdle

\* clustered = _cluster_levels(raw_levels, tolerance)
Cluster ==
    /\ pc = "cluster"
    /\ clustered' \in ClusterMeans(raw_levels, Tolerance)
    /\ pc' = "recluster"
    /\ UNCHANGED <<raw_levels, reclustered, pipeVars, rankVars, scanVars, indVars, loopVars, otherVars>>

\* reclustered = _cluster_levels(clustered, tolerance)
Recluster ==
    /\ pc = "recluster"
    /\ reclustered' \in ClusterMeans(clustered, Tolerance)
    /\ pc' = "cluster_done"
    /\ UNCHANGED <<raw_levels, clustered, pipeVars, rankVars, scanVars, indVars, loopVars, otherVars>>

NextCluster == Cluster \/ Recluster

SpecCluster == InitCluster /\ [][NextCluster]_vars

\* C7: clustering is idempotent: for every list of positive price levels and
\* a fixed tolerance, applying _cluster_levels to the output of
\* _cluster_levels returns that same output list unchanged.
C7_ClusteringIdempotent ==
    pc = "cluster_done" => reclustered = clustered

\* The sorted input, and the positions in it where the walk of the claim
\* starts a cluster: the first, and each whose value is more than the
\* tolerance above the value before it, relative to that value
SortedInput == SortedAsc(raw_levels)

ClusterStarts ==
    IF raw_levels = <<>> THEN {}
    ELSE {1} \cup { i \in 2..Len(SortedInput) :
                      1000 * (SortedInput[i] - SortedInput[i - 1])
                          > Tolerance * SortedInput[i - 1] }

\* Where the k-th cluster starts and ends in the sorted input
StartOf(k) ==
    CHOOSE i \in ClusterStarts : Cardinality({ j \in ClusterStarts : j <= i }) = k

EndOf(k) ==
    IF k = Cardinality(ClusterStarts) THEN Len(SortedInput) ELSE StartOf(k + 1) - 1

\* C21: _cluster_levels returns one value per cluster of the sorted input,
\* a cluster ending exactly where the next value is more than the tolerance
\* away from the last added member; the output is ascending, no longer than
\* the input, and each value lies between the smallest and the largest
\* member of its cluster.
C21_ClusterWalkAndMeans ==
    pc = "recluster" =>
        /\ Len(clustered) = Cardinality(ClusterStarts)
        /\ Len(clustered) <= Len(raw_levels)
        /\ \A k \in 1..(Len(clustered) - 1) : clustered[k] <= clustered[k + 1]
        /\ \A k \in 1..Len(clustered) :
              /\ SortedInput[StartOf(k)] <= clustered[k]
              /\ clustered[k] <= SortedInput[EndOf(k)]

----------------------------------------------------------------------------
(* The scan loop of run_screener (main.py) and of the /api/scan handler
   (web/app.py), started on a loaded stock list with no cached result *)

MaxStocks == 2

\* config.WARMUP_DAYS
WARMUP_DAYS == 220

Markets == {"nifty_500", "dow_30", "nasdaq_100"}
us_markets == {"dow_30", "nasdaq_100", "sp_500"}

\* The parameters of detect_signals: def detect_signals(df)
detect_signals_params == {"df"}

\* Fewer bars than this and the caller skips the stock
MinBars(who) == IF who = "run_screener" THEN 50 ELSE WARMUP_DAYS

\* What fetch_ohlcv and compute_indicators give for a stock: None (the fetch
\* failed) or an enriched frame
ScanFrames ==
    {None} \cup
    { DataFrame([len |-> n, close |-> c, ema_200 |-> Some(15000),
                 volume_sma |-> Some(200000), atr |-> Some(1500)],
                [ema_20 |-> Some(19000), ema_50 |-> Some(18000)],
                <<Some(45), Some(45), Some(38), Some(39), Some(45)>>,
                << <<Some(-1), Some(0)>>, <<Some(-1), Some(0)>>,
                   <<Some(-1), Some(0)>>, <<Some(1), Some(0)>> >>,
                [path |-> CHOOSE p \in Paths : p.base = 98500, prev_close |-> c - 100],
                300000) :
        n \in {30, 60, 250}, c \in {20000, 100000} }

StockLists ==
    UNION { { [k \in 1..n |-> [symbol |-> k, frame |-> fs[k]]] : fs \in [1..n -> ScanFrames] } :
            n \in 1..MaxStocks }

InitScan ==
    /\ pc = "scan"
    /\ caller \in {"run_screener", "scan"}
    /\ market \in Markets
    /\ stocks \in StockLists
    /\ idx = 1
    /\ skipped = 0 /\ filtered = 0 /\ raised = None
    /\ df = None /\ result = None /\ levels = None /\ score_result = None
    /\ RankIdle /\ ClusterIdle /\ IndIdle /\ LoopIdle /\ OthersIdle

\* A stock that did not give a candidate: both counters and the position
Count(skip, filter) ==
    /\ skipped' = skipped + skip
    /\ filtered' = filtered + filter
    /\ idx' = idx + 1
    /\ UNCHANGED <<pc, raised, candidates>>

\* The body of `for stock_info in stocks:` for one stock
ScanStock ==
    /\ pc = "scan" /\ idx <= Len(stocks)
    /\ LET stock_info == stocks[idx]
           fetched == stock_info.frame
           min_price == IF market \in us_markets THEN MIN_PRICE_US ELSE MIN_PRICE
           kwargs == [min_price |-> min_price]
       IN  /\ df' = fetched
           /\ IF IsNone(fetched) \/ fetched.len < MinBars(caller)
              THEN Count(1, 0) /\ UNCHANGED <<result, levels, score_result>>
              ELSE IF ~(DOMAIN kwargs \subseteq detect_signals_params)
              THEN \* detect_signals(df, min_price=min_price): TypeError,
                   \* unexpected keyword argument; nothing catches it
                   /\ raised' = Some("TypeError")
                   /\ pc' = "raised"
                   /\ UNCHANGED <<result, levels, score_result, candidates,
                                  idx, skipped, filtered>>
              ELSE
              LET r == detect_signals(fetched)
              IN  /\ result' = r
                  /\ IF ~Get(r, "passed", FALSE)
                     THEN /\ IF caller = "scan" \/ Get(r, "reason", "") = "filter_failed"
                             THEN Count(0, 1) ELSE Count(1, 0)
                          /\ UNCHANGED <<levels, score_result>>
                     ELSE \E lv \in compute_levels(r) :
                          /\ levels' = lv
                          /\ IF IsNone(lv)
                             THEN Count(0, 1) /\ UNCHANGED score_result
                             ELSE \E sc \in compute_score(r, Val(lv)) :
                                  /\ score_result' = Some(sc)
                                  /\ candidates' = Append(candidates,
                                        [symbol |-> stock_info.symbol, score |-> sc.total,
                                         signal_count |-> r.signal_count, levels |-> Val(lv)])
                                  /\ idx' = idx + 1
                                  /\ UNCHANGED <<pc, raised, skipped, filtered>>
    /\ UNCHANGED <<ranked, clusterVars, caller, market, stocks, indVars, loopVars, otherVars>>

\* After the loop: candidates = rank_candidates(candidates)
RankScan ==
    /\ pc = "scan" /\ idx > Len(stocks)
    /\ ranked' = rank_candidates(candidates)
    /\ pc' = "scan_done"
    /\ UNCHANGED <<candidates, pipeVars, clusterVars, scanVars, indVars, loopVars, otherVars>>

NextScan == ScanStock \/ RankScan

SpecScan == InitScan /\ [][NextScan]_vars

\* The minimum price configured for the market
ConfiguredMinimum(m) == IF m \in us_markets THEN MIN_PRICE_US ELSE MIN_PRICE

\* C8: for a stock that reaches detect_signals, the price_min filter is
\* (latest close >= the minimum price configured for the market scanned):
\* MIN_PRICE_US for dow_30, nasdaq_100 and sp_500, MIN_PRICE otherwise.
C8_PriceMinUsesMarketMinimum ==
    (pc \in {"scan", "raised", "scan_done"} /\ ~IsNone(df) /\ df.len >= MinBars(caller)) =>
        /\ ~IsNone(result)
        /\ "filters" \in DOMAIN result
        /\ result.filters.price_min = (Val(iloc(df, 1).Close) >= ConfiguredMinimum(market))

\* C9: a scan over N stocks is never left by an exception; each stock the
\* loop has passed ended in exactly one of candidate, filtered and skipped,
\* so candidates + filtered + skipped = N when ranking starts.
C9_ScanCompletesAndCounts ==
    /\ IsNone(raised)
    /\ pc = "scan" => Len(candidates) + filtered + skipped = idx - 1
    /\ pc = "scan_done" => Len(candidates) + filtered + skipped = Len(stocks)

----------------------------------------------------------------------------
(* compute_indicators on raw frames with some of the columns missing *)

RequiredColumns == {"Open", "High", "Low", "Close", "Volume"}

IndicatorColumns == {"EMA_20", "EMA_50", "EMA_200", "RSI", "MACD", "MACD_Signal",
                     "MACD_Hist", "ATR", "Volume_SMA"}

\* The columns compute_indicators reads, in the order it reads them:
\* df["Close"] (EMAs, RSI, MACD), df["High"], df["Low"] (ATR), df["Volume"]
ColumnsRead == <<"Close", "High", "Low", "Volume">>

\* df[name] on a frame without that column raises KeyError
RECURSIVE FirstMissing(_, _)
FirstMissing(cols, k) ==
    IF k > Len(ColumnsRead) THEN None
    ELSE IF ColumnsRead[k] \notin cols THEN Some(ColumnsRead[k])
    ELSE FirstMissing(cols, k + 1)

\* compute_indicators(df): the exception it raises, or the frame it returns
compute_indicators(frame) ==
    IF notna(FirstMissing(frame.columns, 1))
    THEN [raised |-> Some("KeyError"), value |-> None]
    ELSE [raised |-> None,
          value |-> Some([frame EXCEPT !.columns = @ \cup IndicatorColumns])]

RawFrames == [columns : SUBSET RequiredColumns, len : {10, 60, 250}]

InitIndicators ==
    /\ pc = "compute_indicators"
    /\ ohlcv \in RawFrames
    /\ enriched = None
    /\ df = None /\ result = None /\ levels = None /\ score_result = None
    /\ series = None
    /\ RankIdle /\ ClusterIdle /\ ScanIdle /\ LoopIdle /\ OthersIdle

ComputeIndicators ==
    /\ pc = "compute_indicators"
    /\ LET out == compute_indicators(ohlcv)
       IN  raised' = out.raised /\ enriched' = out.value
    /\ pc' = "indicators_done"
    /\ UNCHANGED <<ohlcv, series, pipeVars, rankVars, clusterVars,
                   caller, market, stocks, idx, skipped, filtered, loopVars, otherVars>>

NextIndicators == ComputeIndicators

SpecIndicators == InitIndicators /\ [][NextIndicators]_vars

\* C11: compute_indicators fails with InvalidInputError when the input lacks
\* any of the required columns Open, High, Low, Close, Volume (a failure the
\* callers then treat as a skip of that instrument).
C11_MissingColumnRaisesInvalidInput ==
    (pc = "indicators_done" /\ ~(RequiredColumns \subseteq ohlcv.columns)) =>
        raised = Some("InvalidInputError")

----------------------------------------------------------------------------
(* Claims about compute_levels (SpecLevels) *)

LevelsDone == pc = "levels_done"

\* supports=[95.0], resistances=[110.0], close=97.0, atr=2.0
Scenario12 == result = LevelInput(97000, Some(2000), <<95000>>, <<110000>>)

\* C12 (as stated): in the scenario compute_levels returns a plan with entry
\* 97.0, stop 94.525, risk 2.475, target_1 101.95, target_2 110, primary
\* target 110, reward 13 and risk_reward 5.25.
C12_ScenarioStatedValues ==
    (LevelsDone /\ Scenario12) =>
        /\ notna(levels)
        /\ Val(levels).entry = 9700
        /\ 10 * Val(levels).stop_loss = 94525
        /\ 10 * Val(levels).risk = 2475
        /\ Val(levels).target_1 = 10195
        /\ Val(levels).target_2 = 11000
        /\ Val(levels).primary_target = 11000
        /\ Val(levels).reward = 1300
        /\ Val(levels).risk_reward = 525

\* C12 (amended): the returned stop_loss and risk are 94.525 and 2.475
\* rounded to 2 decimal places; the other fields are as stated.
C12_ScenarioRoundedValues ==
    (LevelsDone /\ Scenario12) =>
        /\ notna(levels)
        /\ Val(levels).entry = 9700
        /\ Val(levels).stop_loss \in {9452, 9453}
        /\ Val(levels).risk \in {247, 248}
        /\ Val(levels).target_1 = 10195
        /\ Val(levels).target_2 = 11000
        /\ Val(levels).primary_target = 11000
        /\ Val(levels).reward = 1300
        /\ Val(levels).risk_reward = 525

\* The scenario's plan as the float computation returns it
C12_Witness ==
    /\ LevelsDone /\ Scenario12 /\ notna(levels)
    /\ Val(levels).stop_loss = 9453 /\ Val(levels).risk = 247

\* The entry of the returned plan, in thousandths (the inputs are whole
\* hundredths, so rounding the entry to 2 decimals does not move it)
PlanEntry == 10 * Val(levels).entry

\* The supports of the input strictly below 99% of the plan's entry
QualifyingSupports ==
    { result.supports[i] : i \in 1..Len(result.supports) } \cap
    { s \in LvSupports : 100 * s < 99 * PlanEntry }

\* The highest member of a non-empty set of prices
Highest(S) == CHOOSE s \in S : \A t \in S : t <= s

AtrStop == 10000 * PlanEntry - ATR_SL_MULTIPLIER_X10 * 1000 * Val(result.latest.atr)

\* The stop the rule of C15 gives, in 1e-7 units
RuleStop ==
    IF QualifyingSupports = {} THEN AtrStop
    ELSE Max(AtrStop, 9950 * Highest(QualifyingSupports))

\* C15: the stop-loss of a plan is the ATR stop, entry - 1.5 x atr, when no
\* support is strictly below 0.99 x entry, and otherwise the higher of the
\* ATR stop and 0.995 x the highest such support (returned rounded to 2
\* decimals).
C15_StopLossRule ==
    (LevelsDone /\ notna(levels)) =>
        Val(levels).stop_loss \in Round(RuleStop, 100000)

\* Two supports under 99% of entry, the nearer one setting the stop
C15_Witness ==
    /\ LevelsDone /\ notna(levels)
    /\ Cardinality(QualifyingSupports) = 2
    /\ 9950 * Highest(QualifyingSupports) > AtrStop
    /\ Val(levels).stop_loss = 9841

\* The supports of the input strictly below the close and within 1% of it
SnapSupports ==
    { result.supports[i] : i \in 1..Len(result.supports) } \cap
    { s \in LvSupports : s < Val(result.latest.close)
                          /\ 100 * (Val(result.latest.close) - s) <= s }

TargetResistances ==
    { result.resistances[i] : i \in 1..Len(result.resistances) } \cap
    { x \in LvResistances : 100 * x > 101 * PlanEntry }

\* The lowest member of a non-empty set of prices
Lowest(S) == CHOOSE s \in S : \A t \in S : s <= t

\* The quantities of C17 in 1e-7 units, from the plan's entry and the stop
\* of the stop-loss rule
RuleRisk == 10000 * PlanEntry - RuleStop

RuleTarget1 == 10000 * PlanEntry + MIN_RISK_REWARD * RuleRisk

RuleTarget2 ==
    IF TargetResistances = {} THEN RuleTarget1 + RuleTarget1 \div 50
    ELSE 10000 * Lowest(TargetResistances)

RulePrimary == Max(RuleTarget1, RuleTarget2)

C24_PlanForValidInput ==
    LevelsDone =>
        (IsNone(levels) <=>
            \/ IsNone(result.latest.close)
            \/ IsNone(result.latest.atr)
            \/ Val(result.latest.atr) <= 0)

----------------------------------------------------------------------------
(* Claims about detect_signals (SpecSignals), continued *)

\* 60 flat bars, then a 5% rally on unchanged volume
Scenario13 == \E r \in {None, Some(100)} : df = FlatRally(60, r)

\* C13: for 60 flat bars (close 100, high 101, low 99, volume 100000)
\* followed by one bar with a 5% rally on unchanged volume, detect_signals
\* does not report volume_surge as true and returns passed = false.
C13_FlatThenRallyFails ==
    (Done /\ Scenario13) =>
        /\ result.passed = FALSE
        /\ "signals" \in DOMAIN result => ~result.signals.volume_surge

\* The scenario ends at the filters: EMA_200 is not available after 61 bars
C13_Witness ==
    /\ Done /\ Scenario13
    /\ result.reason = "filter_failed"
    /\ ~result.filters.price_above_200ema
    /\ result.filters.price_min /\ result.filters.volume_min

----------------------------------------------------------------------------
(* The indicators of a series as it grows bar by bar.

   compute_indicators hands the closes to EMAIndicator and RSIIndicator of
   the `ta` package; the averages below follow the definitions the
   indicators are specified by: an EMA of window w is not available on the
   first w - 1 bars, starts as the simple mean of the first w closes and then
   moves by 2 / (w + 1) of its distance to each new close; the RSI smooths
   the gains and the losses over RSI_PERIOD bars the way Wilder does.
   Closes are in thousandths, averages in millionths, average gain and loss
   in hundred-thousandths, the RSI in whole points (rounded down).        *)

MaxBars == 225

EMA_SHORT == 20
EMA_MID == 50
RSI_PERIOD == 14

\* The close that follows close c on bar k of series family fam
StepAt(fam, k) == IF k <= fam.switch THEN fam.step1 ELSE fam.step2

\* EMA of window w after the bar that makes the series k bars long: total is
\* the sum of the closes before it, ema the previous value, x the new close
EmaNext(w, k, x, total, ema) ==
    IF k < w THEN None
    ELSE IF k = w THEN Some(1000 * ((total + x) \div w) + (1000 * ((total + x) % w)) \div w)
    ELSE Some(Val(ema) + (2 * (1000 * x - Val(ema))) \div (w + 1))

\* Wilder's average after the change that is the m-th of the series: the
\* plain sum of the first RSI_PERIOD changes, their mean, then
\* (13 * avg + change) / 14
WilderNext(m, avg, change) ==
    IF m < RSI_PERIOD THEN avg + 100 * change
    ELSE IF m = RSI_PERIOD THEN (avg + 100 * change) \div RSI_PERIOD
    ELSE ((RSI_PERIOD - 1) * avg + 100 * change) \div RSI_PERIOD

\* RSI = 100 - 100 / (1 + avg_gain / avg_loss); 100 when there is no loss
Rsi(m, avg_gain, avg_loss) ==
    IF m < RSI_PERIOD THEN None
    ELSE IF avg_loss = 0 THEN Some(100)
    ELSE Some((100 * avg_gain) \div (avg_gain + avg_loss))

\* Series families: the close moves by step1 per bar up to bar `switch` and
\* by step2 after it
Families ==
    [step1 : {-1000, 0, 10, 1000}, step2 : {-300, 10, 1000}, switch : {1, 30, 120, 215}]

FirstBar(fam) ==
    [n |-> 1, close |-> 100000, fam |-> fam, total |-> 100000,
     ema_20 |-> None, ema_50 |-> None,
     avg_gain |-> 0, avg_loss |-> 0, rsi |-> None, increasing |-> TRUE]

InitSeries ==
    /\ pc = "series"
    /\ \E fam \in Families : series = Some(FirstBar(fam))
    /\ ohlcv = None /\ enriched = None /\ LoopIdle /\ OthersIdle
    /\ df = None /\ result = None /\ levels = None /\ score_result = None
    /\ RankIdle /\ ClusterIdle /\ ScanIdle

\* One more bar, and the indicators on it
AppendBar ==
    /\ pc = "series"
    /\ Val(series).n < MaxBars
    /\ LET sr == Val(series)
           k == sr.n + 1
           step == StepAt(sr.fam, k)
           x == sr.close + step
           avg_gain == WilderNext(k - 1, sr.avg_gain, Max(step, 0))
           avg_loss == WilderNext(k - 1, sr.avg_loss, Max(-step, 0))
       IN  series' = Some([n |-> k, close |-> x, fam |-> sr.fam,
                           total |-> IF k <= EMA_MID THEN sr.total + x ELSE sr.total,
                           ema_20 |-> EmaNext(EMA_SHORT, k, x,
                                              IF k = EMA_SHORT THEN sr.total ELSE 0, sr.ema_20),
                           ema_50 |-> EmaNext(EMA_MID, k, x,
                                              IF k = EMA_MID THEN sr.total ELSE 0, sr.ema_50),
                           avg_gain |-> avg_gain, avg_loss |-> avg_loss,
                           rsi |-> Rsi(k - 1, avg_gain, avg_loss),
                           increasing |-> sr.increasing /\ step > 0])
    /\ UNCHANGED <<pc, ohlcv, enriched, pipeVars, rankVars, clusterVars, scanVars, loopVars, otherVars>>

NextSeries == AppendBar

SpecSeries == InitSeries /\ [][NextSeries]_vars

----------------------------------------------------------------------------
(* Claims about the indicators of a growing series *)

\* ema_aligned of detect_signals on the latest bar of the series
SeriesAligned ==
    EmaAligned(Some(1000 * Val(series).close), Val(series).ema_20, Val(series).ema_50)

\* C14: on a series of at least 220 bars whose close has risen on every bar,
\* ema_aligned (close > EMA_20 > EMA_50) is true on the latest bar and the
\* RSI has reached 100; and on every series the RSI, once it is available,
\* lies in [0, 100].
C14_RisingSeriesAlignsAndRsiBounded ==
    pc = "series" =>
        /\ (Val(series).n >= WARMUP_DAYS /\ Val(series).increasing) =>
               (SeriesAligned /\ Val(series).rsi = Some(100))
        /\ notna(Val(series).rsi) =>
               (Val(Val(series).rsi) >= 0 /\ Val(Val(series).rsi) <= 100)

C14_Witness ==
    /\ pc = "series"
    /\ Val(series).n = WARMUP_DAYS
    /\ Val(series).increasing
    /\ Val(series).fam.step1 = 10
    /\ SeriesAligned
    /\ Val(series).rsi = Some(100)

----------------------------------------------------------------------------
(* Claims about the five signals of detect_signals (SpecSignals) *)

\* The supports detect_signals found strictly below the latest close
SupportsBelowClose ==
    { s \in { result.supports[i] : i \in 1..Len(result.supports) } :
        s < Val(iloc(df, 1).Close) }

\* Whether support s is within SUPPORT_PROXIMITY_PCT of the latest close
NearClose(s) ==
    100 * (Val(iloc(df, 1).Close) - s) <= SUPPORT_PROXIMITY_PCT_X100 * s

\* C18: support_bounce is true exactly when some support is strictly below
\* the latest close, the highest such support is within SUPPORT_PROXIMITY_PCT
\* (2%) of that close, and the latest close is above the previous close.
C18_SupportBounceNearestOnly ==
    (Done /\ "signals" \in DOMAIN result) =>
        (result.signals.support_bounce <=>
            /\ SupportsBelowClose /= {}
            /\ NearClose(Highest(SupportsBelowClose))
            /\ Val(iloc(df, 1).Close) > Val(iloc(df, 2).Close))

\* Several supports below the close, the nearest within 2% and the farthest
\* not, and the bounce signalled
C18_Witness ==
    /\ Done /\ "signals" \in DOMAIN result
    /\ Cardinality(SupportsBelowClose) >= 2
    /\ NearClose(Highest(SupportsBelowClose))
    /\ ~NearClose(Lowest(SupportsBelowClose))
    /\ result.signals.support_bounce

\* A bullish cross at bar -k of the frame: MACD <= signal on the bar before
\* it and MACD > signal on it, all four values present
BullishCross(k) ==
    /\ df.MACD[6 - k] /= None /\ df.MACD_Signal[6 - k] /= None
    /\ df.MACD[5 - k] /= None /\ df.MACD_Signal[5 - k] /= None
    /\ Val(df.MACD[6 - k]) > Val(df.MACD_Signal[6 - k])
    /\ Val(df.MACD[5 - k]) <= Val(df.MACD_Signal[5 - k])

\* macd_crossover is true exactly when the latest MACD and signal are
\* present and one of the three most recent bars is a bullish cross
CrossoverValue ==
    result.signals.macd_crossover <=>
        /\ df.MACD[5] /= None /\ df.MACD_Signal[5] /= None
        /\ \E k \in 1..3 : BullishCross(k)

\* The scan left at the first cross it met, and only there
StopsAtFirstMatch ==
    LET v == Val(macd_loop).visited
    IN  /\ v /= <<>>
        /\ \A j \in 1..(Len(v) - 1) : ~BullishCross(-v[j])
        /\ Len(v) < 3 => BullishCross(-v[Len(v)])

C20_RsiRecoveryThreeConditions ==
    (Done /\ "signals" \in DOMAIN result) =>
        (result.signals.rsi_recovery <=>
            /\ \E k \in 1..5 : df.RSI[k] /= None /\ Val(df.RSI[k]) <= RSI_OVERSOLD
            /\ df.RSI[5] /= None /\ Val(df.RSI[5]) > RSI_OVERSOLD
            /\ df.RSI[4] /= None /\ Val(df.RSI[5]) > Val(df.RSI[4]))

\* Oversold only on the oldest of the five bars, and the recovery signalled
C20_Witness ==
    /\ Done /\ "signals" \in DOMAIN result
    /\ df.RSI[1] = Some(40)
    /\ \A k \in 2..5 : df.RSI[k] /= None /\ Val(df.RSI[k]) > RSI_OVERSOLD
    /\ result.signals.rsi_recovery

----------------------------------------------------------------------------
(* find_support_resistance on its own *)

\* Frame lengths: empty, around the 11 bars a swing point needs, around the
\* 20 and len - 5 of the short-frame rule, around lookback and beyond it
SwingLens == {0, 5, 10, 11, 12, 19, 20, 21, 24, 25, 26, 30, 45, 59, 60, 61, 70}

\* The High and Low columns of a frame of n bars on price path p
SwingFrame(p, n) ==
    [len |-> n,
     High |-> [i \in 1..n |-> PathLow(p, i) + p.spread],
     Low |-> [i \in 1..n |-> PathLow(p, i)]]

InitSwing ==
    /\ pc = "find_support_resistance"
    /\ \E p \in Paths, n \in SwingLens : df = SwingFrame(p, n)
    /\ sr_out = None
    /\ result = None /\ levels = None /\ score_result = None
    /\ RankIdle /\ ClusterIdle /\ ScanIdle /\ IndIdle /\ LoopIdle /\ WebIdle

FindSupportResistance ==
    /\ pc = "find_support_resistance"
    /\ sr_out' = Some([raw |-> SwingCandidates(df),
                       returned |-> find_support_resistance(df)])
    /\ pc' = "sr_done"
    /\ UNCHANGED <<pipeVars, rankVars, clusterVars, scanVars, indVars, loopVars, webVars>>

NextSwing == FindSupportResistance

SpecSwing == InitSwing /\ [][NextSwing]_vars

\* The number of bars find_support_resistance works on: the most recent 60,
\* or max(20, length - 5) of a shorter frame, or all there are
SliceLen ==
    Min(df.len, IF df.len < 60 THEN Max(20, df.len - 5) ELSE 60)

\* The bars of the frame that are in the slice and have 5 bars of the slice
\* on each side
Centres == { i \in 1..df.len : i - 5 > df.len - SliceLen /\ i + 5 <= df.len }

SwingLowAt == { i \in Centres : \A j \in (i - 5)..(i + 5) : df.Low[i] <= df.Low[j] }

SwingHighAt == { i \in Centres : \A j \in (i - 5)..(i + 5) : df.High[i] >= df.High[j] }

\* The k-th member of a set of positions, in ascending order
Nth(S, k) == CHOOSE i \in S : Cardinality({ j \in S : j <= i }) = k

\* C22: the support candidates are the lows of the bars of the slice (the
\* most recent 60 bars, or max(20, length - 5) of a shorter frame) that have
\* 5 bars on each side and whose low equals the minimum low of the 11 bars
\* centred on them, the resistance candidates likewise with highs and
\* maxima; a slice of fewer than 11 bars yields empty lists.
C22_SwingCandidates ==
    pc = "sr_done" =>
        LET raw == Val(sr_out).raw
            returned == Val(sr_out).returned
        IN  /\ Len(raw.supports_raw) = Cardinality(SwingLowAt)
            /\ \A k \in 1..Len(raw.supports_raw) :
                  raw.supports_raw[k] = df.Low[Nth(SwingLowAt, k)]
            /\ Len(raw.resistances_raw) = Cardinality(SwingHighAt)
            /\ \A k \in 1..Len(raw.resistances_raw) :
                  raw.resistances_raw[k] = df.High[Nth(SwingHighAt, k)]
            /\ SliceLen < 11 =>
                  returned = [supports |-> <<>>, resistances |-> <<>>]

\* A frame of 30 bars: the slice is its last 25, and the swing low on bar 6
\* is outside it while the one on bar 18 is a candidate
C22_Witness ==
    /\ pc = "sr_done"
    /\ df.len = 30
    /\ SliceLen = 25
    /\ \A j \in 1..11 : df.Low[6] <= df.Low[j]
    /\ 6 \notin SwingLowAt
    /\ 18 \in SwingLowAt
    /\ Val(sr_out).raw.supports_raw = <<df.Low[18]>>

----------------------------------------------------------------------------
(* compute_score over the whole RSI range *)

\* RSI values: absent, and every whole point of [0, 100]
RsiValues == {None} \cup { Some(r) : r \in 0..100 }

InitRsiScore ==
    /\ pc = "compute_score"
    /\ \E signals \in ScSignals, rsi \in RsiValues :
            result = ScoreInput(signals, 100000, Some(99000), Some(98000),
                                Some(90000), rsi, 150800, 100000)
    /\ levels \in ScPlans
    /\ score_result = None
    /\ df = None
    /\ RankIdle /\ ClusterIdle /\ ScanIdle /\ IndIdle /\ LoopIdle /\ OthersIdle

SpecRsiScore == InitRsiScore /\ [][NextScore]_vars

\* The RSI compute_score works with: 50 when it is absent
ScoredRsi == IF result.latest.rsi = None THEN 50 ELSE Val(result.latest.rsi)

\* The four bands of the RSI Position score, and the score of each in tenths
RsiBands ==
    << [holds |-> 40 <= ScoredRsi /\ ScoredRsi <= 60, score |-> 1000],
       [holds |-> (30 <= ScoredRsi /\ ScoredRsi < 40)
                  \/ (60 < ScoredRsi /\ ScoredRsi <= 70), score |-> 700],
       [holds |-> ScoredRsi < 30, score |-> 400],
       [holds |-> ScoredRsi > 70, score |-> 10 * Max(0, 100 - (ScoredRsi - 70) * 5)] >>

\* C23: the RSI Position raw score is 100 for RSI in [40,60], 70 for RSI in
\* [30,40) or (60,70], 40 for RSI < 30 and max(0, 100 - (RSI - 70) x 5) for
\* RSI > 70, an absent RSI counting as 50; exactly one band applies to each
\* RSI.
C23_RsiBands ==
    pc = "score_done" =>
        /\ Cardinality({ b \in 1..4 : RsiBands[b].holds }) = 1
        /\ \A b \in 1..4 :
              RsiBands[b].holds =>
                  Val(score_result).factors[5].raw_score = RsiBands[b].score

\* RSI exactly 40, scored as the ideal zone
C23_Witness ==
    /\ pc = "score_done"
    /\ result.latest.rsi = Some(40)
    /\ Val(score_result).factors[5].name = "RSI Position"
    /\ Val(score_result).factors[5].raw_score = 1000

----------------------------------------------------------------------------
(* compute_levels on closes that are not whole hundredths: detect_signals
   hands on float(latest["Close"]) as the data source delivered it *)

FineCloses == {100004, 100005, 100006}

InitLevelsFine ==
    /\ pc = "compute_levels"
    /\ \E close \in FineCloses, atr \in {Some(300), Some(2000)},
          supports \in AscendingLists(LvSupports),
          resistances \in LevelLists(LvResistances) :
            result = LevelInput(close, atr, supports, resistances)
    /\ levels = None
    /\ df = None
    /\ score_result = None
    /\ RankIdle /\ ClusterIdle /\ ScanIdle /\ IndIdle /\ LoopIdle /\ OthersIdle

SpecLevelsFine == InitLevelsFine /\ [][NextLevels]_vars

\* C25: every plan compute_levels returns has stop_loss <= entry <= target_1
\* <= primary_target, entry <= latest close and primary_target >= target_2,
\* on the returned (rounded) fields.
C25_PlanOrdering ==
    (LevelsDone /\ notna(levels)) =>
        /\ Val(levels).stop_loss <= Val(levels).entry
        /\ Val(levels).entry <= Val(levels).target_1
        /\ Val(levels).target_1 <= Val(levels).primary_target
        /\ 10 * Val(levels).entry <= Val(result.latest.close)
        /\ Val(levels).primary_target >= Val(levels).target_2

\* The part of C25 that does not compare a rounded field with the close
PlanFieldsOrdered ==
    (LevelsDone /\ notna(levels)) =>
        /\ Val(levels).stop_loss <= Val(levels).entry
        /\ Val(levels).entry <= Val(levels).target_1
        /\ Val(levels).target_1 <= Val(levels).primary_target
        /\ Val(levels).primary_target >= Val(levels).target_2

----------------------------------------------------------------------------
(* detect_signals on frames whose EMA_200 compute_indicators has computed *)

EMA_LONG == 200

\* The last five rows of an indicator of window w on a frame of len bars:
\* not available on the bars before its warm-up length, col after it
WarmUp(col, w, len) == [k \in 1..5 |-> IF len - 5 + k < w THEN None ELSE col[k]]

\* Frame lengths below, at and above EMA_LONG
WarmLens == {50, 60, 120, 198, 199, 200, 201, 250}

\* Frames of those lengths: close below and above MIN_PRICE, below and above
\* the EMA_200 it would have, thin and heavy volume, and the other columns
\* with and without signals
WarmFrames ==
    { [DataFrame(f, x[1], x[2], x[3], x[4], x[5])
          EXCEPT !.EMA_200 = WarmUp(Flat(f.ema_200), EMA_LONG, f.len)] :
        f \in [len : WarmLens, close : {49999, 100000},
               ema_200 : {Some(90000), Some(100000)},
               volume_sma : {Some(99999), Some(200000)},
               atr : {Some(1500)}],
        x \in RepE \X RepR \X RepM \X RepS \X RepV }

InitWarmup ==
    /\ pc = "detect_signals"
    /\ df \in WarmFrames
    /\ result = None
    /\ levels = None
    /\ score_result = None
    /\ RankIdle /\ ClusterIdle /\ ScanIdle /\ IndIdle /\ LoopIdle /\ OthersIdle

SpecWarmup == InitWarmup /\ [][NextSignals]_vars

\* C26: a series of 50 to 199 bars never passes: its EMA_200 is not
\* available on the latest bar, price_above_200ema is false and
\* detect_signals returns passed = false with reason "filter_failed",
\* whatever the prices and volumes.
C26_ShortSeriesNeverPass ==
    (Done /\ df.len >= 50 /\ df.len < EMA_LONG) =>
        /\ ~result.passed
        /\ "reason" \in DOMAIN result /\ result.reason = "filter_failed"
        /\ ~result.filters.price_above_200ema

\* 199 bars of a series that passes with 200: price and volume filters
\* passed, only the EMA_200 filter failed
C26_Witness ==
    /\ Done /\ df.len = 199
    /\ ~result.passed
    /\ result.filters = [price_above_200ema |-> FALSE, price_min |-> TRUE,
                          volume_min |-> TRUE]
    /\ detect_signals([df EXCEPT !.len = 200,
                                 !.EMA_200 = Flat(Some(90000))]).passed

----------------------------------------------------------------------------
(* web/app.py and data/cache.py: /api/scan and /api/results on one day *)

\* The instrument lists the market fetchers return, by their length (the
\* list of a market is the same all day); an empty list is a failed
\* download.  The S&P 500 has 503 constituents.
MarketLists == [dow_30 |-> 30, nasdaq_100 |-> 0, sp_500 |-> 503]

\* market_fetchers.get(market)
KnownMarkets == DOMAIN MarketLists

\* Values of the market parameter, one of them not a market
MarketParams == {"dow_30", "nasdaq_100", "sp_500", "dow"}

\* Values of max_stocks (absent, or an integer) and of scope
MaxStocksParams == {None, Some(0), Some(20), Some(500), Some(600)}
ScopeParams == {20, 500, 600}

\* scope = max_stocks if max_stocks else 500
ScopeOf(max_stocks) ==
    IF notna(max_stocks) /\ Val(max_stocks) /= 0 THEN Val(max_stocks) ELSE 500

\* cache_key = f"{market}_{scope}"
CacheKey(mkt, scope) == mkt \o "_" \o ToString(scope)

\* len(stocks) after `if max_stocks: stocks = stocks[:max_stocks]`
ScannedLen(mkt, max_stocks) ==
    IF notna(max_stocks) /\ Val(max_stocks) /= 0
    THEN Min(MarketLists[mkt], Val(max_stocks))
    ELSE MarketLists[mkt]

\* get_cached_results(cache_key): the row of today with that scope, marked
\* cached, or None
get_cached_results(key) ==
    IF key \in DOMAIN cache THEN Some([cache[key] EXCEPT !.cached = TRUE]) ELSE None

InitWeb ==
    /\ pc = "serving"
    /\ cache = <<>> /\ request = None /\ response = None /\ runs = <<>>
    /\ df = None /\ result = None /\ levels = None /\ score_result = None
    /\ RankIdle /\ ClusterIdle /\ ScanIdle /\ IndIdle /\ LoopIdle /\ SrIdle

\* GET /api/results?market=..&scope=..
Results(mkt, scope) ==
    /\ pc = "serving"
    /\ request' = Some([path |-> "/api/results", market |-> mkt, scope |-> scope])
    /\ LET cached == get_cached_results(CacheKey(mkt, scope))
       IN  response' = IF notna(cached) THEN Val(cached) ELSE [cached |-> FALSE]
    /\ UNCHANGED <<pc, cache, runs, pipeVars, rankVars, clusterVars, scanVars,
                   indVars, loopVars, srVars>>

\* GET /api/scan?market=..&max_stocks=..  has_data says whether fetch_ohlcv
\* delivers WARMUP_DAYS bars for some instrument of the list: that instrument
\* reaches detect_signals(df, min_price=min_price).
Scan(mkt, max_stocks, has_data) ==
    /\ pc = "serving"
    /\ request' = Some([path |-> "/api/scan", market |-> mkt, max_stocks |-> max_stocks])
    /\ LET key == CacheKey(mkt, ScopeOf(max_stocks))
           cached == get_cached_results(key)
           total == ScannedLen(mkt, max_stocks)
           response_data == [market |-> mkt, count |-> 0, total |-> total,
                             skipped |-> total, cached |-> FALSE]
       IN  IF notna(cached)
           THEN response' = Val(cached) /\ UNCHANGED <<cache, runs>>
           ELSE IF mkt \notin KnownMarkets
           THEN response' = [error |-> "Unknown market", status_code |-> 400]
                /\ UNCHANGED <<cache, runs>>
           ELSE IF MarketLists[mkt] = 0
           THEN response' = [error |-> "Could not load stock list", status_code |-> 500]
                /\ UNCHANGED <<cache, runs>>
           ELSE IF has_data /\ ~({"df", "min_price"} \subseteq detect_signals_params)
           THEN response' = [error |-> "TypeError", status_code |-> 500]
                /\ UNCHANGED <<cache, runs>>
           ELSE \* every instrument skipped; save_scan_results(cache_key, response_data)
                /\ response' = response_data
                /\ cache' = [k \in DOMAIN cache \cup {key} |->
                                IF k = key THEN response_data ELSE cache[k]]
                /\ runs' = [k \in DOMAIN runs \cup {key} |->
                               IF k = key THEN Get(runs, key, 0) + 1 ELSE runs[k]]
    /\ UNCHANGED <<pc, pipeVars, rankVars, clusterVars, scanVars, indVars, loopVars, srVars>>

NextWeb ==
    \/ \E mkt \in MarketParams, scope \in ScopeParams : Results(mkt, scope)
    \/ \E mkt \in MarketParams, max_stocks \in MaxStocksParams, has_data \in BOOLEAN :
          Scan(mkt, max_stocks, has_data)

SpecWeb == InitWeb /\ [][NextWeb]_vars

\* C27: a response to /api/scan marked cached was produced by a scan of the
\* same market over the same instrument list as the request would scan; a
\* cached response to /api/results is of the requested market; and no scan
\* runs twice for a key on one day.
C27_CachedResponseMatchesRequest ==
    (pc = "serving" /\ notna(response) /\ "cached" \in DOMAIN response
        /\ response.cached) =>
        /\ response.market = Val(request).market
        /\ Val(request).path = "/api/scan" =>
               response.total = ScannedLen(Val(request).market, Val(request).max_stocks)
        /\ \A k \in DOMAIN runs : runs[k] <= 1

\* Without the comparison of the lists: the market matches and no scan
\* runs twice for a key
CachedMarketMatches ==
    (pc = "serving" /\ notna(response) /\ "cached" \in DOMAIN response
        /\ response.cached) =>
        /\ response.market = Val(request).market
        /\ \A k \in DOMAIN runs : runs[k] <= 1

====
